---- MODULE Spec2Model ----
(***************************************************************************)
(* A model of AdvancedForecaster (backend/src/tools/advanced_forecasting.py). *)
(*                                                                         *)
(* Dates are day numbers (the difference of two dates is their difference  *)
(* in days).  Amounts are integers.  A forecast result carries its values  *)
(* as integer numerators over one positive denominator `den`, so that the  *)
(* code's multiplications by 0.9, 1.1, 0.1, 0.4 and 0.2 and the            *)
(* least-squares line are exact; floating-point rounding is not modelled.  *)
(* The statistical libraries (statsmodels, prophet, scikit-learn) are the  *)
(* environment: a call into them either raises or returns values chosen    *)
(* from small sets.                                                        *)
(***************************************************************************)
EXTENDS Integers, Sequences, FiniteSets, TLC

VARIABLES input_df, cashflow_df, daily_cashflow, built, init_error, op, result

vars == <<input_df, cashflow_df, daily_cashflow, built, init_error, op, result>>

(* ------------------------------ bounds -------------------------------- *)

\* longest transaction table drawn freely
MaxTxns == 2
\* freely drawn transactions are dated 0 .. MaxDay
MaxDay == 2
\* longest requested horizon (days_ahead)
MaxHorizon == 2
\* longest history of one transaction per day
MaxLong == 11

(* ------------------------------ inputs -------------------------------- *)

\* (amount_sgd, direction) of a ledger row: an inflow, an outflow flagged by
\* its direction, and an outflow given as a negative amount
TxnKinds == {<<30, "IN">>, <<20, "OUT">>, <<-20, "OUT">>}

Txns == {[payment_date |-> d, amount_sgd |-> k[1], direction |-> k[2]] :
            d \in 0..MaxDay, k \in TxnKinds}

SmallInputs == UNION {[1..n -> Txns] : n \in 0..MaxTxns}

\* one transaction on each of n consecutive days, alternating +30 / -20
\* (sign = 1, a growing balance) or -30 / +20 (sign = -1, a draining one)
Alternating(n, sign) ==
    [i \in 1..n |-> [payment_date |-> i - 1,
                     amount_sgd |-> IF i % 2 = 1 THEN sign * 30 ELSE sign * (-20),
                     direction |-> IF (i % 2 = 1) = (sign = 1) THEN "IN" ELSE "OUT"]]

LongInputs == {Alternating(n, sign) : n \in 4..MaxLong, sign \in {1, -1}}

Inputs == SmallInputs \cup LongInputs

Horizons == 1..MaxHorizon

(* ------------------------------ helpers ------------------------------- *)

RECURSIVE SumSeq(_)
SumSeq(s) == IF s = <<>> THEN 0 ELSE s[1] + SumSeq(Tail(s))

SetMin(S) == CHOOSE m \in S : \A x \in S : m <= x
SetMax(S) == CHOOSE m \in S : \A x \in S : m >= x

RECURSIVE Gcd(_, _)
Gcd(a, b) == IF b = 0 THEN a ELSE Gcd(b, a % b)
Lcm(a, b) == (a * b) \div Gcd(a, b)

\* the rows of df whose payment_date is d, in table order
RowsOn(df, d) == SelectSeq(df, LAMBDA t : t.payment_date = d)

Column(rows, f) == [i \in 1..Len(rows) |-> rows[i][f]]

(* ------------------------- Daily Series Builder ----------------------- *)

\* groupby('payment_date').agg(amount_sgd sum, direction lambda): one row per
\* distinct date; the amounts are summed as they stand, the direction column
\* only feeds net_direction, which compares with lower-case 'in' and 'out'
group_by_date(df) ==
    [d \in {df[i].payment_date : i \in 1..Len(df)} |->
        [daily_amount |-> SumSeq(Column(RowsOn(df, d), "amount_sgd")),
         net_direction |->
            Len(SelectSeq(RowsOn(df, d), LAMBDA t : t.direction = "in"))
            - Len(SelectSeq(RowsOn(df, d), LAMBDA t : t.direction = "out"))]]

\* pd.date_range(start, end, freq='D')
date_range(start, end) == [i \in 1..(end - start + 1) |-> start + i - 1]

\* reindex that keeps the grouped rows and adds none for the missing dates
reindex_no_fill(grouped, dates) ==
    LET present == SelectSeq(dates, LAMBDA d : d \in DOMAIN grouped)
    IN  [i \in 1..Len(present) |->
            [payment_date |-> present[i],
             daily_amount |-> grouped[present[i]].daily_amount,
             net_direction |-> grouped[present[i]].net_direction]]

\* set_index('payment_date').reindex(date_range, fill_value=0)
reindex(grouped, dates) ==
    [i \in 1..Len(dates) |->
        IF dates[i] \in DOMAIN grouped
        THEN [payment_date |-> dates[i],
              daily_amount |-> grouped[dates[i]].daily_amount,
              net_direction |-> grouped[dates[i]].net_direction]
        ELSE [payment_date |-> dates[i], daily_amount |-> 0, net_direction |-> 0]]

\* the daily amounts themselves, nothing carried from day to day
cumsum_no_carry(s) == s

\* Series.cumsum()
RECURSIVE cumsum(_)
cumsum(s) ==
    IF s = <<>> THEN <<>>
    ELSE LET front == cumsum(SubSeq(s, 1, Len(s) - 1))
         IN  Append(front, (IF front = <<>> THEN 0 ELSE front[Len(front)]) + s[Len(s)])

\* pd.date_range raises ValueError when start and end are NaT, which is what
\* min() and max() of an empty date column are
prepare_raises(df) == df = <<>>

\* _prepare_daily_data, for a table on which it does not raise
prepare_daily_data(df) ==
    LET grouped == group_by_date(df)
        dates == date_range(SetMin(DOMAIN grouped), SetMax(DOMAIN grouped))
        daily == reindex(grouped, dates)
        cum == cumsum(Column(daily, "daily_amount"))
    IN  [i \in 1..Len(daily) |->
            [payment_date |-> daily[i].payment_date,
             daily_amount |-> daily[i].daily_amount,
             net_direction |-> daily[i].net_direction,
             cumulative |-> cum[i]]]

(* --------------------------- result values ---------------------------- *)

\* the 'cumulative' column of the daily series
cumulative_of(daily) == Column(daily, "cumulative")

\* [last_date + timedelta(days=i) for i in range(1, days_ahead + 1)]
future_dates_after(last_date, days_ahead) == [i \in 1..days_ahead |-> last_date + i]

\* an exception that leaves the called method
Raised(error) == [model_type |-> "raised", error |-> error]

raised(r) == r.model_type = "raised"

\* a fallback that reports errors as a fitted model does
fallback_metrics_as_fitted == [mae |-> 6, rmse |-> 8, r2_score |-> 0]

\* 'metrics' of both fallback tiers
fallback_metrics == [mae |-> 0, rmse |-> 0, r2_score |-> 0]

(* ------------------------- Fallback Forecaster ------------------------ *)

\* x = np.arange(len(series))
arange(n) == [i \in 1..n |-> i - 1]

SumProd(a, b) == SumSeq([i \in 1..Len(a) |-> a[i] * b[i]])

\* np.polyfit(x, series, 1) scales each column of the Vandermonde matrix by
\* its norm; for a one-point series x = [0], the x column is all zero, the
\* division yields NaN and lstsq raises LinAlgError
polyfit_raises(series) ==
    LET x == arange(Len(series)) IN SumProd(x, x) = 0

\* the least-squares line through (x[i], series[i]): slope and intercept as
\* numerators over den = n * sum(x^2) - sum(x)^2
polyfit(series) ==
    LET n == Len(series)
        x == arange(n)
        Sx == SumSeq(x)
        Sxx == SumProd(x, x)
        Sy == SumSeq(series)
        Sxy == SumProd(x, series)
    IN  [slope |-> n * Sxy - Sx * Sy,
         intercept |-> Sy * Sxx - Sx * Sxy,
         den |-> n * Sxx - Sx * Sx]

\* np.polyval(coeffs, x), a numerator over coeffs.den
polyval(coeffs, x) == coeffs.slope * x + coeffs.intercept

\* the linear tier returning the model's own tag
linear_fallback_untagged(daily, days_ahead, model_type) ==
    LET series == cumulative_of(daily)
        coeffs == polyfit(series)
        future_predictions ==
            [i \in 1..days_ahead |-> polyval(coeffs, Len(series) + i - 1)]
    IN  [model_type |-> model_type,
         forecast |-> [i \in 1..days_ahead |-> 10 * future_predictions[i]],
         confidence_interval |->
            [lower |-> [i \in 1..days_ahead |-> 9 * future_predictions[i]],
             upper |-> [i \in 1..days_ahead |-> 11 * future_predictions[i]]],
         den |-> 10 * coeffs.den,
         future_dates |-> future_dates_after(daily[Len(daily)].payment_date, days_ahead),
         metrics |-> fallback_metrics,
         trend |-> IF coeffs.slope > 0 THEN "increasing" ELSE "decreasing",
         path |-> "linear"]

\* the linear tier extrapolating from the last observed index on
linear_fallback_from_last(daily, days_ahead, model_type) ==
    LET series == cumulative_of(daily)
        coeffs == polyfit(series)
        future_x == [i \in 1..days_ahead |-> Len(series) - 1 + i - 1]
        future_predictions == [i \in 1..days_ahead |-> polyval(coeffs, future_x[i])]
        ci_range == future_predictions
        last_date == daily[Len(daily)].payment_date
    IN  [model_type |-> model_type \o "_Fallback",
         forecast |-> [i \in 1..days_ahead |-> 10 * future_predictions[i]],
         confidence_interval |->
            [lower |-> [i \in 1..days_ahead |-> 10 * future_predictions[i] - ci_range[i]],
             upper |-> [i \in 1..days_ahead |-> 10 * future_predictions[i] + ci_range[i]]],
         den |-> 10 * coeffs.den,
         future_dates |-> future_dates_after(last_date, days_ahead),
         metrics |-> fallback_metrics,
         trend |-> IF coeffs.slope > 0 THEN "increasing" ELSE "decreasing",
         path |-> "linear"]

\* the try block of _fallback_forecast; values are numerators over 10 * den,
\* so that ci_range = future_predictions * 0.1 is future_predictions[i] itself
linear_fallback(daily, days_ahead, model_type) ==
    LET series == cumulative_of(daily)
        coeffs == polyfit(series)
        future_x == [i \in 1..days_ahead |-> Len(series) + i - 1]
        future_predictions == [i \in 1..days_ahead |-> polyval(coeffs, future_x[i])]
        ci_range == future_predictions
        last_date == daily[Len(daily)].payment_date
    IN  [model_type |-> model_type \o "_Fallback",
         forecast |-> [i \in 1..days_ahead |-> 10 * future_predictions[i]],
         confidence_interval |->
            [lower |-> [i \in 1..days_ahead |-> 10 * future_predictions[i] - ci_range[i]],
             upper |-> [i \in 1..days_ahead |-> 10 * future_predictions[i] + ci_range[i]]],
         den |-> 10 * coeffs.den,
         future_dates |-> future_dates_after(last_date, days_ahead),
         metrics |-> fallback_metrics,
         trend |-> IF coeffs.slope > 0 THEN "increasing" ELSE "decreasing",
         path |-> "linear"]

\* an ultimate tier that reads past the end of the series
ultimate_fallback_raises(daily, days_ahead) == Raised("IndexError")

\* the except block of _fallback_forecast; values are numerators over 10;
\* iloc[-1] of an empty series raises IndexError, which nothing catches
ultimate_fallback(daily, days_ahead) ==
    IF daily = <<>> THEN Raised("IndexError") ELSE
    LET current_value == daily[Len(daily)].cumulative
    IN  [model_type |-> "Ultimate_Fallback",
         forecast |-> [i \in 1..days_ahead |-> 10 * current_value],
         confidence_interval |->
            [lower |-> [i \in 1..days_ahead |-> 9 * current_value],
             upper |-> [i \in 1..days_ahead |-> 11 * current_value]],
         den |-> 10,
         future_dates |-> <<>>,
         metrics |-> fallback_metrics,
         trend |-> "stable",
         path |-> "ultimate"]

\* a fallback without its except block: the linear fit's exception leaves it
fallback_forecast_uncaught(daily, days_ahead, model_type) ==
    IF polyfit_raises(cumulative_of(daily))
    THEN Raised("LinAlgError")
    ELSE linear_fallback(daily, days_ahead, model_type)

\* _fallback_forecast: the linear tier, and the ultimate tier when it raises
fallback_forecast(daily, days_ahead, model_type) ==
    IF polyfit_raises(cumulative_of(daily))
    THEN ultimate_fallback(daily, days_ahead)
    ELSE linear_fallback(daily, days_ahead, model_type)

(* ----------------------- the libraries' outcomes ----------------------- *)

\* what a fitted statsmodels or prophet model returns: the final point
\* forecast relative to the last observed value (the points before it step
\* up to it by 10 a day), the half-width of its confidence band, and the fit
\* metrics
Deltas == {-50, 0, 50}
Widths == {0, 5}
LibMetrics == {[mae |-> 6, rmse |-> 8, r2_score |-> 0]}

RaiseEnv == [raises |-> TRUE]

\* outcomes of the library calls of forecast_arima and forecast_prophet on a
\* series they accept
SeriesEnvs ==
    {RaiseEnv} \cup
    {[raises |-> FALSE, delta |-> d, width |-> w, metrics |-> m] :
        d \in Deltas, w \in Widths, m \in LibMetrics}

\* adfuller raises ValueError on a constant series and on one too short for
\* its regression (nobs // 2 - ntrend - 1 < 0 with ntrend = 1)
adfuller_raises(series) ==
    \/ \A i \in 1..Len(series) : series[i] = series[1]
    \/ Len(series) \div 2 - 2 < 0

\* Prophet.fit raises ValueError on fewer than 2 rows
prophet_fit_raises(daily) == Len(daily) < 2

\* the outcomes of forecast_arima's library calls: adfuller is the first of
\* them, and when it raises no other is made
ArimaEnvs(daily) ==
    IF adfuller_raises(cumulative_of(daily)) THEN {RaiseEnv} ELSE SeriesEnvs

\* the outcomes of forecast_prophet's library calls: fit is the first that
\* can raise, and when it does no other is made
ProphetEnvs(daily) ==
    IF prophet_fit_raises(daily) THEN {RaiseEnv} ELSE SeriesEnvs

\* the point forecasts a fitted series model returns for environment env
lib_forecast(last_value, days_ahead, env) ==
    [i \in 1..days_ahead |-> last_value + env.delta - (days_ahead - i) * 10]

(* ------------------------- Short-Horizon Model ------------------------ *)

\* the return of forecast_arima's try block; values over den = 1
arima_result(daily, days_ahead, env) ==
    LET series == cumulative_of(daily)
        forecast == lib_forecast(series[Len(series)], days_ahead, env)
        last_date == daily[Len(daily)].payment_date
    IN  [model_type |-> "ARIMA",
         forecast |-> forecast,
         confidence_interval |->
            [lower |-> [i \in 1..days_ahead |-> forecast[i] - env.width],
             upper |-> [i \in 1..days_ahead |-> forecast[i] + env.width]],
         den |-> 1,
         future_dates |-> future_dates_after(last_date, days_ahead),
         metrics |-> env.metrics,
         trend |-> IF forecast[days_ahead] > series[Len(series)]
                   THEN "increasing" ELSE "decreasing",
         path |-> "own"]

\* forecast_arima: any exception of the try block is answered by the fallback
forecast_arima(daily, days_ahead, env) ==
    IF adfuller_raises(cumulative_of(daily)) \/ env.raises
    THEN fallback_forecast(daily, days_ahead, "ARIMA")
    ELSE arima_result(daily, days_ahead, env)

(* ---------------------------- Seasonal Model --------------------------- *)

\* the return of forecast_prophet's try block; values over den = 1
prophet_result(daily, days_ahead, env) ==
    LET y == cumulative_of(daily)
        yhat == lib_forecast(y[Len(y)], days_ahead, env)
        last_date == daily[Len(daily)].payment_date
    IN  [model_type |-> "Prophet",
         forecast |-> yhat,
         confidence_interval |->
            [lower |-> [i \in 1..days_ahead |-> yhat[i] - env.width],
             upper |-> [i \in 1..days_ahead |-> yhat[i] + env.width]],
         den |-> 1,
         future_dates |-> future_dates_after(last_date, days_ahead),
         metrics |-> env.metrics,
         trend |-> IF yhat[days_ahead] > y[Len(y)] THEN "increasing" ELSE "decreasing",
         path |-> "own"]

\* forecast_prophet: any exception of the try block is answered by the fallback
forecast_prophet(daily, days_ahead, env) ==
    IF prophet_fit_raises(daily) \/ env.raises
    THEN fallback_forecast(daily, days_ahead, "Prophet")
    ELSE prophet_result(daily, days_ahead, env)

(* --------------------- Feature-Based Regression Model ------------------ *)

\* if len(aligned_data) < 10
MinRows == 10

\* aligned_data['cumulative']: _create_features has one row per transaction
\* date, the inner join with the daily target keeps those dates, and dropna
\* drops nothing after fillna(0)
aligned_target(df, daily) ==
    LET days == {df[i].payment_date : i \in 1..Len(df)}
    IN  Column(SelectSeq(daily, LAMBDA row : row.payment_date \in days), "cumulative")

\* y_train of train_test_split(test_size=0.2, shuffle=False): the rows before
\* the last ceil(0.2 * n)
train_target(y) == SubSeq(y, 1, Len(y) - ((Len(y) + 4) \div 5))

\* a forest's prediction is an average of training targets: the model draws
\* it from the least and the greatest of them
RfEnvs(df, daily, days_ahead) ==
    LET y == aligned_target(df, daily)
        targets == {train_target(y)[i] : i \in 1..Len(train_target(y))}
        range == IF Len(y) < MinRows THEN {} ELSE {SetMin(targets), SetMax(targets)}
    IN  {RaiseEnv} \cup
        {[raises |-> FALSE, predictions |-> f, metrics |-> m] :
            f \in [1..days_ahead -> range], m \in LibMetrics}

\* the return of forecast_random_forest's try block; values over den = 10
random_forest_result(df, daily, days_ahead, env) ==
    LET y == aligned_target(df, daily)
        future_predictions == env.predictions
        last_date == SetMax({df[i].payment_date : i \in 1..Len(df)})
    IN  [model_type |-> "RandomForest",
         forecast |-> [i \in 1..days_ahead |-> 10 * future_predictions[i]],
         confidence_interval |->
            [lower |-> [i \in 1..days_ahead |-> 9 * future_predictions[i]],
             upper |-> [i \in 1..days_ahead |-> 11 * future_predictions[i]]],
         den |-> 10,
         future_dates |-> future_dates_after(last_date, days_ahead),
         metrics |-> env.metrics,
         trend |-> IF future_predictions[days_ahead] > y[Len(y)]
                   THEN "increasing" ELSE "decreasing",
         path |-> "own"]

\* forecast_random_forest without its row count check
forecast_random_forest_unchecked(df, daily, days_ahead, env) ==
    IF env.raises
    THEN fallback_forecast(daily, days_ahead, "RandomForest")
    ELSE random_forest_result(df, daily, days_ahead, env)

\* forecast_random_forest: fewer than MinRows aligned rows, or any exception
\* of the try block, is answered by the fallback
forecast_random_forest(df, daily, days_ahead, env) ==
    IF Len(aligned_target(df, daily)) < MinRows \/ env.raises
    THEN fallback_forecast(daily, days_ahead, "RandomForest")
    ELSE random_forest_result(df, daily, days_ahead, env)

(* --------------------------- Ensemble Combiner ------------------------- *)

\* arima_weight, prophet_weight, rf_weight, in tenths
arima_weight == 4
prophet_weight == 4
\* the random forest weighted like the other two, the weights summing to 1.2
rf_weight_as_prophet == prophet_weight
rf_weight == 2

\* an exception leaving one of the three calls ends the try block; numpy adds
\* arrays of equal length (or of length 1) and raises on anything else
blend_raises(a, p, r) ==
    \/ raised(a) \/ raised(p) \/ raised(r)
    \/ LET lens == {Len(a.forecast), Len(p.forecast), Len(r.forecast)} \ {1}
       IN  Cardinality(lens) > 1

\* a blend that takes the ARIMA sequence alone, at the full weight
weighted_arima_only(a, p, r, aseq, pseq, rseq, common) ==
    [i \in 1..Len(aseq) |-> aseq[i] * (common \div a.den) * 10]

\* arima * arima_weight + prophet * prophet_weight + rf * rf_weight, the three
\* sequences being numerators over a.den, p.den and r.den: numerators over
\* 10 * common
weighted(a, p, r, aseq, pseq, rseq, common) ==
    [i \in 1..Len(aseq) |->
        aseq[i] * (common \div a.den) * arima_weight
        + pseq[i] * (common \div p.den) * prophet_weight
        + rseq[i] * (common \div r.den) * rf_weight]

\* the return of ensemble_forecast's try block
ensemble_result(daily, a, p, r) ==
    LET common == Lcm(a.den, Lcm(p.den, r.den))
        ensemble == weighted(a, p, r, a.forecast, p.forecast, r.forecast, common)
        current_value == daily[Len(daily)].cumulative
    IN  [model_type |-> "Ensemble",
         forecast |-> ensemble,
         confidence_interval |->
            [lower |-> weighted(a, p, r, a.confidence_interval.lower,
                                p.confidence_interval.lower,
                                r.confidence_interval.lower, common),
             upper |-> weighted(a, p, r, a.confidence_interval.upper,
                                p.confidence_interval.upper,
                                r.confidence_interval.upper, common)],
         den |-> 10 * common,
         future_dates |-> a.future_dates,
         metrics |-> [arima_mae |-> a.metrics.mae,
                      prophet_mae |-> p.metrics.mae,
                      rf_mae |-> r.metrics.mae,
                      ensemble_mae |->
                         [num |-> a.metrics.mae + p.metrics.mae + r.metrics.mae,
                          den |-> 3]],
         trend |-> IF ensemble[Len(ensemble)] > current_value * 10 * common
                   THEN "increasing" ELSE "decreasing",
         model_weights |-> [arima |-> arima_weight, prophet |-> prophet_weight,
                            random_forest |-> rf_weight],
         individual_models |-> [arima |-> a, prophet |-> p, random_forest |-> r],
         path |-> "own"]

\* ensemble_forecast: runs the three models, blends them, and answers any
\* exception of the blend with the fallback
ensemble_forecast(df, daily, days_ahead, env_a, env_p, env_r) ==
    LET a == forecast_arima(daily, days_ahead, env_a)
        p == forecast_prophet(daily, days_ahead, env_p)
        r == forecast_random_forest(df, daily, days_ahead, env_r)
    IN  IF blend_raises(a, p, r)
        THEN fallback_forecast(daily, days_ahead, "Ensemble")
        ELSE ensemble_result(daily, a, p, r)

(* ------------------------------ state --------------------------------- *)

\* input_df        the caller's transaction table
\* cashflow_df     self.cashflow_df, the forecaster's copy of it
\* daily_cashflow  self.daily_cashflow
\* built           "new" before __init__, then "built", or "raised" when
\*                 __init__ raised
\* init_error      the exception __init__ raised, "none" when it raised none
\* op              the call in progress: its name, its days_ahead and the
\*                 outcomes of the library calls made in it
\* result          the value the call returns to its caller

NoResult == [model_type |-> "none"]
NoEnv == [raises |-> FALSE]
NoOp == [name |-> "none", days_ahead |-> 0, env |-> NoEnv]

Init ==
    /\ input_df \in Inputs
    /\ cashflow_df = <<>>
    /\ daily_cashflow = <<>>
    /\ built = "new"
    /\ init_error = "none"
    /\ op = NoOp
    /\ result = NoResult

\* AdvancedForecaster.__init__: copies the caller's table and builds the daily
\* series; an exception of _prepare_daily_data leaves no forecaster
Construct ==
    /\ built = "new"
    /\ op' = [name |-> "__init__", days_ahead |-> 0, env |-> NoEnv]
    /\ IF prepare_raises(input_df)
       THEN /\ built' = "raised"
            /\ init_error' = "ValueError"
            /\ UNCHANGED <<cashflow_df, daily_cashflow>>
       ELSE /\ built' = "built"
            /\ init_error' = "none"
            /\ cashflow_df' = input_df
            /\ daily_cashflow' = prepare_daily_data(input_df)
    /\ UNCHANGED <<input_df, result>>

ModelTypes == {"ARIMA", "Prophet", "RandomForest", "Ensemble"}

\* a call of _fallback_forecast on a built forecaster
FallbackForecast ==
    /\ built = "built"
    /\ result = NoResult
    /\ \E days_ahead \in Horizons, model_type \in ModelTypes :
          /\ op' = [name |-> "_fallback_forecast", days_ahead |-> days_ahead,
                  env |-> [raises |-> FALSE, model_type |-> model_type]]
          /\ result' = fallback_forecast(daily_cashflow, days_ahead, model_type)
    /\ UNCHANGED <<input_df, cashflow_df, daily_cashflow, built, init_error>>

\* a call of forecast_arima on a built forecaster
ForecastArima ==
    /\ built = "built"
    /\ result = NoResult
    /\ \E days_ahead \in Horizons, env \in ArimaEnvs(daily_cashflow) :
          /\ op' = [name |-> "forecast_arima", days_ahead |-> days_ahead, env |-> env]
          /\ result' = forecast_arima(daily_cashflow, days_ahead, env)
    /\ UNCHANGED <<input_df, cashflow_df, daily_cashflow, built, init_error>>

\* a call of forecast_prophet on a built forecaster
ForecastProphet ==
    /\ built = "built"
    /\ result = NoResult
    /\ \E days_ahead \in Horizons, env \in ProphetEnvs(daily_cashflow) :
          /\ op' = [name |-> "forecast_prophet", days_ahead |-> days_ahead, env |-> env]
          /\ result' = forecast_prophet(daily_cashflow, days_ahead, env)
    /\ UNCHANGED <<input_df, cashflow_df, daily_cashflow, built, init_error>>

\* a forecast_random_forest that splits self.cashflow_df in place and keeps
\* the training rows
ForecastRandomForestInPlace ==
    /\ built = "built"
    /\ result = NoResult
    /\ \E days_ahead \in Horizons :
        \E env \in RfEnvs(cashflow_df, daily_cashflow, days_ahead) :
          /\ op' = [name |-> "forecast_random_forest", days_ahead |-> days_ahead, env |-> env]
          /\ result' = forecast_random_forest(cashflow_df, daily_cashflow,
                                               days_ahead, env)
    /\ cashflow_df' = train_target(cashflow_df)
    /\ UNCHANGED <<input_df, daily_cashflow, built, init_error>>

\* a call of forecast_random_forest on a built forecaster
ForecastRandomForest ==
    /\ built = "built"
    /\ result = NoResult
    /\ \E days_ahead \in Horizons :
        \E env \in RfEnvs(cashflow_df, daily_cashflow, days_ahead) :
          /\ op' = [name |-> "forecast_random_forest", days_ahead |-> days_ahead, env |-> env]
          /\ result' = forecast_random_forest(cashflow_df, daily_cashflow,
                                               days_ahead, env)
    /\ UNCHANGED <<input_df, cashflow_df, daily_cashflow, built, init_error>>

\* a call of ensemble_forecast on a built forecaster
EnsembleForecast ==
    /\ built = "built"
    /\ result = NoResult
    /\ \E days_ahead \in Horizons, env_a \in ArimaEnvs(daily_cashflow),
          env_p \in ProphetEnvs(daily_cashflow) :
        \E env_r \in RfEnvs(cashflow_df, daily_cashflow, days_ahead) :
          /\ op' = [name |-> "ensemble_forecast", days_ahead |-> days_ahead,
                  env |-> [arima |-> env_a, prophet |-> env_p, random_forest |-> env_r]]
          /\ result' = ensemble_forecast(cashflow_df, daily_cashflow, days_ahead,
                                          env_a, env_p, env_r)
    /\ UNCHANGED <<input_df, cashflow_df, daily_cashflow, built, init_error>>

\* the caller takes the returned value; the next call may follow
Return ==
    /\ result # NoResult
    /\ result' = NoResult
    /\ op' = NoOp
    /\ UNCHANGED <<input_df, cashflow_df, daily_cashflow, built, init_error>>

Next ==
    \/ Construct
    \/ ForecastArima
    \/ ForecastProphet
    \/ ForecastRandomForest
    \/ EnsembleForecast
    \/ FallbackForecast
    \/ Return

Spec == Init /\ [][Next]_vars

(* ------------------------- the sawtooth history ------------------------ *)

\* longest sawtooth history
MaxSawDays == 60

\* one transaction on each of n consecutive days, alternating +1000 and
\* -800, in hundreds
Sawtooth(n) ==
    [i \in 1..n |-> [payment_date |-> i - 1,
                     amount_sgd |-> IF i % 2 = 1 THEN 10 ELSE -8,
                     direction |-> IF i % 2 = 1 THEN "IN" ELSE "OUT"]]

SawInputs == SmallInputs \cup {Sawtooth(n) : n \in 2..MaxSawDays}

SawInit ==
    /\ input_df \in SawInputs
    /\ cashflow_df = <<>>
    /\ daily_cashflow = <<>>
    /\ built = "new"
    /\ init_error = "none"
    /\ op = NoOp
    /\ result = NoResult

\* a forecaster over a sawtooth history, and its fallback
SawNext ==
    \/ Construct
    \/ FallbackForecast
    \/ Return

SawSpec == SawInit /\ [][SawNext]_vars

(* --------------------------- AIChartGenerator -------------------------- *)

\* the horizons up to which forecast_cashflow takes the short-horizon and
\* the seasonal model
ShortHorizon == 30
MediumHorizon == 90

\* longest history of the tables a chart generator is built from
MaxChartDays == 4

\* the tables of a chart generator after prepare_data; the endpoint refuses
\* an empty table before it builds one
ChartInputs ==
    {Alternating(n, sign) : n \in 1..MaxChartDays, sign \in {1, -1}}
    \cup [1..1 -> Txns]

\* the days forecast_cashflow is asked for: both sides of its two thresholds
\* and the days of the four time ranges
ChartHorizons ==
    {7, ShortHorizon, ShortHorizon + 1, MediumHorizon, MediumHorizon + 1, 365}

\* the forecaster method forecast_cashflow calls for days_ahead
route(days_ahead) ==
    IF days_ahead <= ShortHorizon THEN "forecast_arima"
    ELSE IF days_ahead <= MediumHorizon THEN "forecast_prophet"
    ELSE "ensemble_forecast"

\* the outcomes of the library calls of the method forecast_cashflow calls
CashflowEnvs(df, days_ahead) ==
    LET daily == prepare_daily_data(df)
    IN  CASE route(days_ahead) = "forecast_arima" ->
                {[arima |-> e] : e \in ArimaEnvs(daily)}
          [] route(days_ahead) = "forecast_prophet" ->
                {[prophet |-> e] : e \in ProphetEnvs(daily)}
          [] OTHER ->
                {[arima |-> ea, prophet |-> ep, random_forest |-> er] :
                    ea \in ArimaEnvs(daily), ep \in ProphetEnvs(daily),
                    er \in RfEnvs(df, daily, days_ahead)}

\* result['metrics'].get(name, 0.0)
metric_or_zero(metrics, name) ==
    IF name \in DOMAIN metrics THEN metrics[name] ELSE 0

\* the forecaster method forecast_cashflow calls for days_ahead, called
select_forecast(df, daily, days_ahead, env) ==
    CASE route(days_ahead) = "forecast_arima" ->
            forecast_arima(daily, days_ahead, env.arima)
      [] route(days_ahead) = "forecast_prophet" ->
            forecast_prophet(daily, days_ahead, env.prophet)
      [] OTHER ->
            ensemble_forecast(df, daily, days_ahead, env.arima, env.prophet,
                              env.random_forest)

\* (predictions, metrics) of a forecaster's result; predictions are
\* numerators over den
extract_predictions(res) ==
    [predictions |-> res.forecast,
     den |-> res.den,
     metrics |-> [r2_score |-> metric_or_zero(res.metrics, "r2_score"),
                  mae |-> metric_or_zero(res.metrics, "mae"),
                  rmse |-> metric_or_zero(res.metrics, "rmse"),
                  trend |-> res.trend,
                  model_type |-> res.model_type,
                  confidence_interval |-> res.confidence_interval]]

\* forecast_cashflow: a forecaster of its own over the generator's table, the
\* method chosen by the horizon, and (predictions, metrics) of its result.
\* The except branch is taken when the forecaster cannot be built, which is
\* for an empty table.
forecast_cashflow(df, days_ahead, env) ==
    IF prepare_raises(df)
    THEN [predictions |-> <<>>, den |-> 1,
          metrics |-> [model_type |-> "Polynomial_Fallback"]]
    ELSE extract_predictions(
            select_forecast(df, prepare_daily_data(df), days_ahead, env))

\* the sum of amount_sgd over the rows of date d and direction dir
DirectionSum(df, d, dir) ==
    SumSeq(Column(SelectSeq(RowsOn(df, d), LAMBDA t : t.direction = dir),
                  "amount_sgd"))

\* create_daily_cashflow: one row per transaction date, net = IN - OUT and
\* its running sum; dates without transactions get no row
create_daily_cashflow(df) ==
    LET days == {df[i].payment_date : i \in 1..Len(df)}
        dates == SelectSeq(date_range(SetMin(days), SetMax(days)),
                           LAMBDA d : d \in days)
        net == [i \in 1..Len(dates) |->
                   DirectionSum(df, dates[i], "IN") - DirectionSum(df, dates[i], "OUT")]
        cum == cumsum(net)
    IN  [i \in 1..Len(dates) |->
            [payment_date |-> dates[i], net |-> net[i], cumulative |-> cum[i]]]

Max(a, b) == IF a >= b THEN a ELSE b
Min(a, b) == IF a <= b THEN a ELSE b

\* np.clip(a, a_min, a_max) = minimum(a_max, maximum(a, a_min))
clip(a, a_min, a_max) == Min(a_max, Max(a, a_min))

\* abs(current_value) * twentieths / 20
abs_share(current_value, twentieths) ==
    [num |-> (IF current_value < 0 THEN -current_value ELSE current_value) * twentieths,
     den |-> 20]

\* _get_best_model_for_horizon
get_best_model_for_horizon(days_ahead) ==
    IF days_ahead <= 7 THEN "ARIMA - Best for very short-term daily patterns"
    ELSE IF days_ahead <= ShortHorizon
    THEN "ARIMA - Best for short-term trends and daily patterns"
    ELSE IF days_ahead <= MediumHorizon
    THEN "Prophet - Best for medium-term seasonality and business cycles"
    ELSE "Ensemble - Best for long-term robust predictions"

\* _calculate_confidence_level, on ensemble_mae = num / den
calculate_confidence_level(ensemble_mae) ==
    IF ensemble_mae.num < 1000 * ensemble_mae.den
    THEN "High - Models show strong agreement"
    ELSE IF ensemble_mae.num < 5000 * ensemble_mae.den
    THEN "Medium - Some model disagreement"
    ELSE "Low - High uncertainty, consider more data"

\* realistic_result of get_advanced_forecasting_insights: the line coeffs
\* (over D = coeffs.den) clipped to [0.5, 3] * current_value, with a band of
\* 15%; the clipped predictions are numerators over 2 * D, the returned
\* values over 40 * D
realistic_result(series, coeffs, last_date, days_ahead) ==
    LET current_value == series[Len(series)]
        max_realistic == 6 * current_value * coeffs.den
        future_predictions ==
            [i \in 1..days_ahead |->
                clip(2 * polyval(coeffs, Len(series) + i - 1),
                     current_value * coeffs.den, max_realistic)]
    IN  [model_type |-> "Polynomial_Realistic",
         forecast |-> [i \in 1..days_ahead |-> 20 * future_predictions[i]],
         confidence_interval |->
            [lower |-> [i \in 1..days_ahead |-> 17 * future_predictions[i]],
             upper |-> [i \in 1..days_ahead |-> 23 * future_predictions[i]]],
         den |-> 40 * coeffs.den,
         future_dates |-> future_dates_after(last_date, days_ahead),
         metrics |-> [mae |-> abs_share(current_value, 2),
                      rmse |-> abs_share(current_value, 3),
                      r2_score |-> [num |-> 15, den |-> 20],
                      ensemble_mae |-> abs_share(current_value, 2)],
         trend |-> IF coeffs.slope > 0 THEN "increasing" ELSE "decreasing"]

\* the dictionary get_advanced_forecasting_insights returns: the one result
\* under four names
insights_of(realistic, days_ahead) ==
    [arima |-> [realistic EXCEPT !.model_type = "ARIMA_Realistic"],
     prophet |-> [realistic EXCEPT !.model_type = "Prophet_Realistic"],
     random_forest |-> [realistic EXCEPT !.model_type = "RandomForest_Realistic"],
     ensemble |-> [realistic EXCEPT !.model_type = "Ensemble_Realistic"],
     recommendations |-> [best_model |-> "Polynomial_Realistic",
                          confidence |-> "medium"],
     best_model_for_horizon |-> get_best_model_for_horizon(days_ahead),
     confidence_level |-> calculate_confidence_level(realistic.metrics.ensemble_mae)]

\* get_advanced_forecasting_insights: a straight line through the generator's
\* own daily series; an exception of the fit is answered with an error entry
get_advanced_forecasting_insights(chart_daily, days_ahead) ==
    IF polyfit_raises(cumulative_of(chart_daily))
    THEN [error |-> "LinAlgError", fallback_used |-> TRUE]
    ELSE insights_of(
            realistic_result(cumulative_of(chart_daily),
                             polyfit(cumulative_of(chart_daily)),
                             chart_daily[Len(chart_daily)].payment_date,
                             days_ahead),
            days_ahead)

TimeRanges == {"7d", "30d", "90d", "1y", "2y"}
Scenarios == {"current", "optimistic", "pessimistic"}
Clock == {0, 1}

\* {"7d": 7, "30d": 30, "90d": 90, "1y": 365}.get(time_range, 30)
days_of(time_range) ==
    CASE time_range = "7d" -> 7
      [] time_range = "30d" -> 30
      [] time_range = "90d" -> 90
      [] time_range = "1y" -> 365
      [] OTHER -> 30

\* the outcomes of a request's library calls: the ARIMA fit behind the trend
\* chart, the one behind the insights, and the clock
RequestEnvs(df) ==
    LET fits == {e \in ArimaEnvs(prepare_daily_data(df)) :
                    e.raises \/ (e.delta = 50 /\ e.width = 5)}
    IN  {[trend_chart |-> e1, insights |-> e2, now |-> t] :
            e1 \in fits, e2 \in fits, t \in Clock}

\* a request whose pessimistic scenario is forecast over a week
days_by_scenario(time_range, scenario) ==
    IF scenario = "pessimistic" THEN 7 ELSE days_of(time_range)

\* the days a request is forecast over
days_ahead_of(time_range, scenario) == days_of(time_range)

\* the dictionary generate_charts_for_recommendations returns: the forecast
\* drawn into the trend chart, the forecasting insights told from a second
\* forecast, the advanced insights, the request's parameters and the
\* metadata. The category and currency charts and the pattern statistics read
\* neither the horizon nor the scenario.
response(df, time_range, scenario, days_ahead, drawn, told, advanced, now) ==
    [model_type |-> "response",
     charts |-> [cashflow_trend |->
                    [forecast |-> drawn.predictions, den |-> drawn.den,
                     r2_score |-> drawn.metrics.r2_score]],
     insights |-> [forecasting |->
                    [next_30_days_trend |-> told.metrics.trend,
                     model_accuracy |-> told.metrics.r2_score,
                     predicted_end_value |->
                        [num |-> told.predictions[Len(told.predictions)],
                         den |-> told.den]]],
     advanced_forecasting |-> advanced,
     forecasting_params |-> [time_range |-> time_range,
                             scenario |-> scenario,
                             days_ahead |-> days_ahead],
     metadata |-> [generated_at |-> now, chart_count |-> 3,
                   data_points |-> Len(df)]]

\* generate_charts_for_recommendations, for a non-empty table already in the
\* generator's form
generate_charts_for_recommendations(df, time_range, scenario, env) ==
    response(df, time_range, scenario,
             days_ahead_of(time_range, scenario),
             forecast_cashflow(df, ShortHorizon, [arima |-> env.trend_chart]),
             forecast_cashflow(df, ShortHorizon, [arima |-> env.insights]),
             get_advanced_forecasting_insights(
                create_daily_cashflow(df), days_ahead_of(time_range, scenario)),
             env.now)

ChartInit ==
    /\ input_df \in ChartInputs
    /\ cashflow_df = <<>>
    /\ daily_cashflow = <<>>
    /\ built = "new"
    /\ init_error = "none"
    /\ op = NoOp
    /\ result = NoResult

\* a call of forecast_cashflow on the chart generator of input_df; the
\* forecaster it builds is its own and is dropped with the call
ForecastCashflow ==
    /\ result = NoResult
    /\ \E days_ahead \in ChartHorizons :
          \E env \in CashflowEnvs(input_df, days_ahead) :
             /\ op' = [name |-> "forecast_cashflow", days_ahead |-> days_ahead,
                       env |-> env, called |-> route(days_ahead)]
             /\ result' = [model_type |-> "forecast"]
                            @@ forecast_cashflow(input_df, days_ahead, env)
    /\ UNCHANGED <<input_df, cashflow_df, daily_cashflow, built, init_error>>

\* a request for the charts of input_df
GenerateCharts ==
    /\ result = NoResult
    /\ \E time_range \in TimeRanges, scenario \in Scenarios :
          \E env \in RequestEnvs(input_df) :
             /\ op' = [name |-> "generate_charts_for_recommendations",
                       days_ahead |-> days_of(time_range), env |-> env,
                       time_range |-> time_range, scenario |-> scenario]
             /\ result' = generate_charts_for_recommendations(
                              input_df, time_range, scenario, env)
    /\ UNCHANGED <<input_df, cashflow_df, daily_cashflow, built, init_error>>

ChartNext ==
    \/ ForecastCashflow
    \/ GenerateCharts
    \/ Return

ChartSpec == ChartInit /\ [][ChartNext]_vars

(* ---------------- forecast_arima, library call by library call ---------- *)

\* while not stationary and diff_order < 3
MaxDiffOrder == 3

\* Series.diff().dropna()
diff(s) == [i \in 1..(Len(s) - 1) |-> s[i + 1] - s[i]]

\* what adfuller finds (p-value < 0.05 or not) on the series as given and
\* after each differencing pass
Verdicts == [0..MaxDiffOrder -> BOOLEAN]

\* the loop of _make_stationary from diff_order on: _check_stationarity is
\* evaluated first, and an exception of adfuller leaves the method
RECURSIVE make_stationary_from(_, _, _)
make_stationary_from(current_series, diff_order, verdicts) ==
    IF adfuller_raises(current_series)
    THEN Raised("ValueError")
    ELSE IF ~verdicts[diff_order] /\ diff_order < MaxDiffOrder
         THEN make_stationary_from(diff(current_series), diff_order + 1, verdicts)
         ELSE [model_type |-> "stationary",
               series |-> current_series,
               diff_order |-> diff_order]

\* _make_stationary
make_stationary(series, verdicts) == make_stationary_from(series, 0, verdicts)

\* range(0, 3), range(0, 2), range(0, 3)
p_values == 0..2
d_values == 0..1
q_values == 0..2

\* the orders (p, d, q) in the order the three nested loops visit them
grid_orders ==
    LET nd == Cardinality(d_values)
        nq == Cardinality(q_values)
    IN  [k \in 1..(Cardinality(p_values) * nd * nq) |->
            <<(k - 1) \div (nd * nq), ((k - 1) \div nq) % nd, (k - 1) % nq>>]

\* ARIMA(series, order=(1, 1, 1))
fixed_order == <<1, 1, 1>>

\* what ARIMA(series, order).fit() does: it raises, or returns a fitted model
\* with an AIC
AICs == {5, 7}
FitRaises == [raises |-> TRUE]
FitOutcomes == {FitRaises} \cup {[raises |-> FALSE, aic |-> a] : a \in AICs}

\* float('inf')
Infinity == [inf |-> TRUE, value |-> 0]
Finite(a) == [inf |-> FALSE, value |-> a]

\* fitted_model.aic < best_aic
aic_less(aic, best_aic) == best_aic.inf \/ aic < best_aic.value

\* one library call, as the log of a forecast records it
Call(call, order, did_raise) == [call |-> call, order |-> order, raised |-> did_raise]

\* best_aic, best_model, best_order before the loop; best_model is the order
\* whose fit is retained, <<>> for None
no_best == [best_aic |-> Infinity, best_model |-> <<>>, best_order |-> <<>>, calls |-> <<>>]

\* a search that stops at the first fit that raises
RECURSIVE grid_search_stopping_from(_, _, _)
grid_search_stopping_from(k, best, fits) ==
    IF k > Len(grid_orders) THEN best
    ELSE IF fits[grid_orders[k]].raises
    THEN [best EXCEPT !.calls = Append(@, Call("fit", grid_orders[k], TRUE))]
    ELSE grid_search_stopping_from(k + 1,
            IF aic_less(fits[grid_orders[k]].aic, best.best_aic)
            THEN [best_aic |-> Finite(fits[grid_orders[k]].aic),
                  best_model |-> grid_orders[k],
                  best_order |-> grid_orders[k],
                  calls |-> Append(best.calls, Call("fit", grid_orders[k], FALSE))]
            ELSE [best EXCEPT !.calls = Append(@, Call("fit", grid_orders[k], FALSE))],
            fits)

\* the three nested loops from the k-th order on: a fit that raises is
\* skipped, a fit of smaller AIC replaces the retained one
RECURSIVE grid_search_from(_, _, _)
grid_search_from(k, best, fits) ==
    IF k > Len(grid_orders) THEN best
    ELSE grid_search_from(k + 1,
            IF fits[grid_orders[k]].raises
            THEN [best EXCEPT !.calls = Append(@, Call("fit", grid_orders[k], TRUE))]
            ELSE IF aic_less(fits[grid_orders[k]].aic, best.best_aic)
            THEN [best_aic |-> Finite(fits[grid_orders[k]].aic),
                  best_model |-> grid_orders[k],
                  best_order |-> grid_orders[k],
                  calls |-> Append(best.calls, Call("fit", grid_orders[k], FALSE))]
            ELSE [best EXCEPT !.calls = Append(@, Call("fit", grid_orders[k], FALSE))],
            fits)

\* the grid search of forecast_arima
grid_search(fits) == grid_search_from(1, no_best, fits)

\* a forecast_arima that leaves for the fallback as soon as the search has
\* retained nothing
after_search_no_fixed_fit(best, fixed) ==
    IF best.best_model # <<>> THEN best
    ELSE [best EXCEPT !.calls = Append(@, Call("fit_fixed", fixed_order, TRUE))]

\* if best_model is None: the fixed order is fitted, and best_aic stays as it
\* is; an exception of that fit leaves the try block
after_search(best, fixed) ==
    IF best.best_model # <<>> THEN best
    ELSE IF fixed.raises
    THEN [best EXCEPT !.calls = Append(@, Call("fit_fixed", fixed_order, TRUE))]
    ELSE [best EXCEPT !.best_model = fixed_order,
                      !.best_order = fixed_order,
                      !.calls = Append(@, Call("fit_fixed", fixed_order, FALSE))]

\* the try block of forecast_arima from the forecast on, for the retained
\* model: the value it returns and the calls made up to it
forecast_with(daily, days_ahead, env, best) ==
    IF best.best_model = <<>>
    THEN [raises |-> TRUE, calls |-> best.calls]
    ELSE IF env.post_raises
    THEN [raises |-> TRUE, calls |-> Append(best.calls, Call("forecast", best.best_order, TRUE))]
    ELSE [raises |-> FALSE,
          calls |-> Append(best.calls, Call("forecast", best.best_order, FALSE)),
          returned |->
             [model_order |-> best.best_order]
             @@ [arima_result(daily, days_ahead, env)
                    EXCEPT !.metrics = [aic |-> best.best_aic] @@ env.metrics]]

\* the try block of forecast_arima: the stationarity transformer, the search,
\* the fixed order, the forecast
arima_try(daily, days_ahead, env, stationary) ==
    IF raised(stationary)
    THEN [raises |-> TRUE, calls |-> <<Call("_make_stationary", <<>>, TRUE)>>]
    ELSE [forecast_with(daily, days_ahead, env,
                        after_search(grid_search(env.fits), env.fixed))
            EXCEPT !.calls = <<Call("_make_stationary", <<>>, FALSE)>> \o @]

\* the except block of forecast_arima, for the outcome of its try block
arima_except(daily, days_ahead, tried) ==
    IF tried.raises
    THEN [returned |-> fallback_forecast(daily, days_ahead, "ARIMA"),
          calls |-> Append(tried.calls, Call("_fallback_forecast", <<>>, FALSE))]
    ELSE [returned |-> tried.returned, calls |-> tried.calls]

\* forecast_arima with its library calls told apart: the value it returns and
\* the log of the calls it made
forecast_arima_search(daily, days_ahead, env) ==
    arima_except(daily, days_ahead,
        arima_try(daily, days_ahead, env,
                  make_stationary(cumulative_of(daily), env.verdicts)))

\* the orders whose fits are drawn freely; the fits of the other orders are
\* all alike
GridSpots == {<<0, 0, 0>>, <<0, 0, 1>>, fixed_order, <<2, 1, 2>>}

GridFits ==
    LET orders == {grid_orders[k] : k \in 1..Len(grid_orders)}
    IN  {[o \in orders |-> IF o = o1 THEN f1 ELSE IF o = o2 THEN f2 ELSE base] :
            o1 \in GridSpots, o2 \in GridSpots, f1 \in FitOutcomes,
            f2 \in FitOutcomes, base \in {FitRaises, [raises |-> FALSE, aic |-> 7]}}

\* the outcomes of the library calls of one forecast_arima: the calls that
\* are not reached have one outcome
SearchEnvs(daily) ==
        {e \in [verdicts : {[d \in 0..MaxDiffOrder |-> v] : v \in BOOLEAN},
                fits : GridFits,
                fixed : {FitRaises, [raises |-> FALSE, aic |-> 5]},
                post_raises : BOOLEAN,
                delta : {50}, width : {5}, metrics : LibMetrics] :
            LET unfit == \A k \in DOMAIN grid_orders : e.fits[grid_orders[k]].raises
                stopped == raised(make_stationary(cumulative_of(daily), e.verdicts))
            IN  /\ stopped => (unfit /\ e.fixed = FitRaises)
                /\ ~unfit => e.fixed = FitRaises
                /\ (unfit /\ e.fixed = FitRaises) => ~e.post_raises}

\* the tables of the forecasters whose forecast_arima is followed call by
\* call
MaxSearchDays == 8
SearchInputs ==
    SmallInputs \cup {Alternating(n, sign) : n \in 4..MaxSearchDays, sign \in {1, -1}}

SearchInit ==
    /\ input_df \in SearchInputs
    /\ cashflow_df = <<>>
    /\ daily_cashflow = <<>>
    /\ built = "new"
    /\ init_error = "none"
    /\ op = NoOp
    /\ result = NoResult

\* a call of _make_stationary on the cumulative series of a built forecaster
MakeStationary ==
    /\ built = "built"
    /\ result = NoResult
    /\ \E verdicts \in Verdicts :
          /\ op' = [name |-> "_make_stationary", days_ahead |-> 0,
                    env |-> [raises |-> FALSE, verdicts |-> verdicts],
                    series |-> cumulative_of(daily_cashflow)]
          /\ result' = make_stationary(cumulative_of(daily_cashflow), verdicts)
    /\ UNCHANGED <<input_df, cashflow_df, daily_cashflow, built, init_error>>

\* what a call of forecast_arima leaves behind: the value in result, the log
\* of its library calls in op
Searched(days_ahead, env, run) ==
    /\ op' = [name |-> "forecast_arima", days_ahead |-> days_ahead, env |-> env,
              calls |-> run.calls]
    /\ result' = run.returned

\* a call of forecast_arima on a built forecaster, library call by library
\* call
ForecastArimaSearch ==
    /\ built = "built"
    /\ result = NoResult
    /\ \E days_ahead \in Horizons, env \in SearchEnvs(daily_cashflow) :
          Searched(days_ahead, env,
                   forecast_arima_search(daily_cashflow, days_ahead, env))
    /\ UNCHANGED <<input_df, cashflow_df, daily_cashflow, built, init_error>>

SearchNext ==
    \/ Construct
    \/ MakeStationary
    \/ ForecastArimaSearch
    \/ Return

SearchSpec == SearchInit /\ [][SearchNext]_vars

(* ------------------- ensemble_forecast, call by call -------------------- *)

\* an ensemble that runs the random forest before the other two
call_order_forest_first == <<"forecast_random_forest", "forecast_arima", "forecast_prophet">>

\* the three calls of ensemble_forecast, in the order of its statements
call_order == <<"forecast_arima", "forecast_prophet", "forecast_random_forest">>

\* the position after the last call: the blend
blend_position == Len(call_order) + 1

\* an ensemble_forecast is at its position-th statement
EnsembleAt(name) ==
    /\ op.name = "ensemble_forecast"
    /\ result = NoResult
    /\ op.pc < blend_position
    /\ call_order[op.pc] = name

\* the call of one model has come back with value x, made under the library
\* outcomes env: an exception leaves the try block, a value is kept and the
\* next statement follows
Called(model, name, env, x) ==
    op' = [op EXCEPT !.pc = IF raised(x) THEN blend_position ELSE @ + 1,
                     !.calls = Append(@, name),
                     !.env[model] = env,
                     !.results[model] = x]

\* ensemble_forecast is entered
EnsembleStart ==
    /\ built = "built"
    /\ result = NoResult
    /\ op.name # "ensemble_forecast"
    /\ \E days_ahead \in Horizons :
          op' = [name |-> "ensemble_forecast", days_ahead |-> days_ahead,
                 env |-> [arima |-> NoEnv, prophet |-> NoEnv, random_forest |-> NoEnv],
                 pc |-> 1, calls |-> <<>>,
                 results |-> [arima |-> NoResult, prophet |-> NoResult,
                              random_forest |-> NoResult]]
    /\ UNCHANGED <<input_df, cashflow_df, daily_cashflow, built, init_error, result>>

\* arima_result = self.forecast_arima(days_ahead)
EnsembleCallArima ==
    /\ EnsembleAt("forecast_arima")
    /\ \E env \in ArimaEnvs(daily_cashflow) :
          Called("arima", "forecast_arima", env,
                 forecast_arima(daily_cashflow, op.days_ahead, env))
    /\ UNCHANGED <<input_df, cashflow_df, daily_cashflow, built, init_error, result>>

\* prophet_result = self.forecast_prophet(days_ahead)
EnsembleCallProphet ==
    /\ EnsembleAt("forecast_prophet")
    /\ \E env \in ProphetEnvs(daily_cashflow) :
          Called("prophet", "forecast_prophet", env,
                 forecast_prophet(daily_cashflow, op.days_ahead, env))
    /\ UNCHANGED <<input_df, cashflow_df, daily_cashflow, built, init_error, result>>

\* rf_result = self.forecast_random_forest(days_ahead)
EnsembleCallRandomForest ==
    /\ EnsembleAt("forecast_random_forest")
    /\ \E env \in RfEnvs(cashflow_df, daily_cashflow, op.days_ahead) :
          Called("random_forest", "forecast_random_forest", env,
                 forecast_random_forest(cashflow_df, daily_cashflow,
                                        op.days_ahead, env))
    /\ UNCHANGED <<input_df, cashflow_df, daily_cashflow, built, init_error, result>>

\* the rest of the try block, and the except block: the blend of the three
\* results, or the fallback when an exception left the try block
EnsembleBlend ==
    /\ op.name = "ensemble_forecast"
    /\ result = NoResult
    /\ op.pc = blend_position
    /\ op' = [op EXCEPT !.pc = blend_position + 1]
    /\ result' = IF blend_raises(op.results.arima, op.results.prophet,
                                 op.results.random_forest)
                 THEN fallback_forecast(daily_cashflow, op.days_ahead, "Ensemble")
                 ELSE ensemble_result(daily_cashflow, op.results.arima,
                                      op.results.prophet, op.results.random_forest)
    /\ UNCHANGED <<input_df, cashflow_df, daily_cashflow, built, init_error>>

EnsembleNext ==
    \/ Construct
    \/ EnsembleStart
    \/ EnsembleCallArima
    \/ EnsembleCallProphet
    \/ EnsembleCallRandomForest
    \/ EnsembleBlend
    \/ Return

EnsembleSpec == Init /\ [][EnsembleNext]_vars

(* --------------- forecast_random_forest, statement by statement --------- *)

\* the calendar date of day number 0: Friday, 22 March
EpochWeekday == 4
EpochDay == 22
EpochMonth == 3

\* the days of a month of a year that is not a leap year
DaysInMonth(month) ==
    IF month \in {4, 6, 9, 11} THEN 30 ELSE IF month = 2 THEN 28 ELSE 31

\* the month and the day of the month reached `ahead` days after a date
RECURSIVE calendar_from(_, _, _)
calendar_from(month, day, ahead) ==
    IF ahead = 0 THEN [month |-> month, day |-> day]
    ELSE IF day < DaysInMonth(month) THEN calendar_from(month, day + 1, ahead - 1)
    ELSE calendar_from((month % 12) + 1, 1, ahead - 1)

\* Timestamp.day and Timestamp.month of day number d
calendar(d) == calendar_from(EpochMonth, EpochDay, d)

\* Timestamp.weekday(), DatetimeIndex.dayofweek: Monday is 0
weekday(d) == (d + EpochWeekday) % 7

\* DatetimeIndex.quarter
quarter(month) == (month - 1) \div 3 + 1

\* a table with the optional columns category and currency
WithLabels(df) ==
    [i \in 1..Len(df) |->
        df[i] @@ [category |-> IF i % 2 = 1 THEN "sales" ELSE "rent",
                  currency |-> IF i % 3 = 0 THEN "USD" ELSE "SGD"]]

\* the values of an optional column, none when the table has no such column
labels(df, column) ==
    IF df # <<>> /\ column \in DOMAIN df[1]
    THEN {df[i][column] : i \in 1..Len(df)}
    ELSE {}

\* groupby(['payment_date', column])['amount_sgd'].sum().unstack(fill_value=0),
\* the row of date d
label_sums(df, d, column) ==
    [c \in labels(df, column) |->
        SumSeq(Column(SelectSeq(RowsOn(df, d), LAMBDA t : t[column] = c), "amount_sgd"))]

\* Series.rolling(window).mean() at row i, and 0 (fillna) where it is NaN
rolling_mean(values, window, i) ==
    IF i < window THEN [num |-> 0, den |-> 1]
    ELSE [num |-> SumSeq(SubSeq(values, i - window + 1, i)), den |-> window]

\* Series.shift(periods) at row i, and 0 (fillna) where it is NaN
shift(values, periods, i) == IF i <= periods THEN 0 ELSE values[i - periods]

\* the row of _create_features for the i-th transaction date
feature_row(df, dates, totals, counts, i) ==
    [payment_date |-> dates[i],
     total_amount |-> totals[i],
     avg_amount |-> [num |-> totals[i], den |-> counts[i]],
     transaction_count |-> counts[i],
     net_direction |->
        Len(SelectSeq(RowsOn(df, dates[i]), LAMBDA t : t.direction = "in"))
        - Len(SelectSeq(RowsOn(df, dates[i]), LAMBDA t : t.direction = "out")),
     day_of_week |-> weekday(dates[i]),
     day_of_month |-> calendar(dates[i]).day,
     month |-> calendar(dates[i]).month,
     quarter |-> quarter(calendar(dates[i]).month),
     is_weekend |-> IF weekday(dates[i]) >= 5 THEN 1 ELSE 0,
     is_month_end |-> IF calendar(dates[i]).day >= 28 THEN 1 ELSE 0,
     amount_7d_avg |-> rolling_mean(totals, 7, i),
     amount_30d_avg |-> rolling_mean(totals, 30, i),
     count_7d_avg |-> rolling_mean(counts, 7, i),
     amount_lag_1 |-> shift(totals, 1, i),
     amount_lag_7 |-> shift(totals, 7, i),
     amount_lag_30 |-> shift(totals, 30, i),
     category |-> label_sums(df, dates[i], "category"),
     currency |-> label_sums(df, dates[i], "currency")]

\* the transaction dates of df in ascending order
sorted_dates(df) ==
    LET days == {df[i].payment_date : i \in 1..Len(df)}
    IN  SelectSeq(date_range(SetMin(days), SetMax(days)), LAMBDA d : d \in days)

\* the rows of _create_features over the dates, from their totals and counts
feature_rows(df, dates) ==
    [i \in 1..Len(dates) |->
        feature_row(df, dates,
                    [j \in 1..Len(dates) |->
                        SumSeq(Column(RowsOn(df, dates[j]), "amount_sgd"))],
                    [j \in 1..Len(dates) |-> Len(RowsOn(df, dates[j]))],
                    i)]

\* _create_features: one row per transaction date, indexed by payment_date
create_features(df) == feature_rows(df, sorted_dates(df))

\* a split that takes the test rows from the front
train_test_split_test_first(rows) ==
    [train |-> SubSeq(rows, (Len(rows) + 4) \div 5 + 1, Len(rows)),
     test |-> SubSeq(rows, 1, (Len(rows) + 4) \div 5)]

\* train_test_split(X, y, test_size=0.2, shuffle=False): the last
\* ceil(0.2 * n) rows are the test rows, the rows before them the training
\* rows
train_test_split(rows) ==
    [train |-> train_target(rows),
     test |-> SubSeq(rows, Len(train_target(rows)) + 1, Len(rows))]

\* a rollforward that also moves the lag of one day
advance_features_and_lag(last_features, last_date) ==
    [last_features EXCEPT !.payment_date = last_date,
                          !.day_of_week = weekday(last_date),
                          !.day_of_month = calendar(last_date).day,
                          !.month = calendar(last_date).month,
                          !.amount_lag_1 = last_features.total_amount]

\* the update of last_features at the end of an iteration: the index and
\* three calendar features are those of last_date
advance_features(last_features, last_date) ==
    [last_features EXCEPT !.payment_date = last_date,
                          !.day_of_week = weekday(last_date),
                          !.day_of_month = calendar(last_date).day,
                          !.month = calendar(last_date).month]

\* the tables of the forecasters whose forecast_random_forest is followed
\* statement by statement: around the minimum of rows, with and without the
\* optional columns
ForestInputs ==
    LET plain == {Alternating(n, sign) : n \in (MinRows - 1)..MaxLong, sign \in {1, -1}}
    IN  plain \cup {WithLabels(df) : df \in plain} \cup [1..1 -> Txns]

ForestInit ==
    /\ input_df \in ForestInputs
    /\ cashflow_df = <<>>
    /\ daily_cashflow = <<>>
    /\ built = "new"
    /\ init_error = "none"
    /\ op = NoOp
    /\ result = NoResult

\* a forecast_random_forest is at the statement pc
ForestAt(pc) ==
    /\ op.name = "forecast_random_forest"
    /\ result = NoResult
    /\ op.pc = pc

\* forecast_random_forest is entered: the features are engineered and aligned
\* with the target; with fewer than MinRows rows the fallback is returned
ForestStart ==
    /\ built = "built"
    /\ result = NoResult
    /\ op.name # "forecast_random_forest"
    /\ \E days_ahead \in Horizons :
          /\ op' = [name |-> "forecast_random_forest", days_ahead |-> days_ahead,
                    env |-> NoEnv,
                    pc |-> IF Len(aligned_target(cashflow_df, daily_cashflow)) < MinRows
                           THEN "return" ELSE "split",
                    features_df |-> create_features(cashflow_df),
                    X_train |-> <<>>, X_test |-> <<>>,
                    last_features |-> <<>>, inputs |-> <<>>,
                    future_predictions |-> <<>>, i |-> 0]
          /\ result' = IF Len(aligned_target(cashflow_df, daily_cashflow)) < MinRows
                       THEN fallback_forecast(daily_cashflow, days_ahead, "RandomForest")
                       ELSE NoResult
    /\ UNCHANGED <<input_df, cashflow_df, daily_cashflow, built, init_error>>

\* the split, the scaling, the training and the evaluation; an exception is
\* answered by the fallback
ForestTrain ==
    /\ ForestAt("split")
    /\ \E env \in {RaiseEnv} \cup {[raises |-> FALSE, metrics |-> m] : m \in LibMetrics} :
          /\ op' = [op EXCEPT
                       !.env = env,
                       !.pc = IF env.raises THEN "return" ELSE "predict",
                       !.X_train = train_test_split(Column(op.features_df, "payment_date")).train,
                       !.X_test = train_test_split(Column(op.features_df, "payment_date")).test,
                       !.last_features = op.features_df[Len(op.features_df)]]
          /\ result' = IF env.raises
                       THEN fallback_forecast(daily_cashflow, op.days_ahead, "RandomForest")
                       ELSE NoResult
    /\ UNCHANGED <<input_df, cashflow_df, daily_cashflow, built, init_error>>

\* one iteration of the loop: the prediction for last_features, drawn between
\* the least and the greatest training target, and the update of
\* last_features for the next day
ForestPredict ==
    /\ ForestAt("predict")
    /\ op.i < op.days_ahead
    /\ \E pred \in {SetMin({train_target(aligned_target(cashflow_df, daily_cashflow))[k] :
                        k \in 1..Len(op.X_train)}),
                    SetMax({train_target(aligned_target(cashflow_df, daily_cashflow))[k] :
                        k \in 1..Len(op.X_train)})} :
          op' = [op EXCEPT
                    !.inputs = Append(@, op.last_features),
                    !.future_predictions = Append(@, pred),
                    !.last_features =
                        advance_features(@,
                            op.features_df[Len(op.features_df)].payment_date + op.i + 1),
                    !.i = @ + 1]
    /\ UNCHANGED <<input_df, cashflow_df, daily_cashflow, built, init_error, result>>

\* after the loop: the future dates and the returned dictionary
ForestFinish ==
    /\ ForestAt("predict")
    /\ op.i = op.days_ahead
    /\ op' = [op EXCEPT !.pc = "return"]
    /\ result' = random_forest_result(cashflow_df, daily_cashflow, op.days_ahead,
                                      [predictions |-> op.future_predictions,
                                       metrics |-> op.env.metrics])
    /\ UNCHANGED <<input_df, cashflow_df, daily_cashflow, built, init_error>>

ForestNext ==
    \/ Construct
    \/ ForestStart
    \/ ForestTrain
    \/ ForestPredict
    \/ ForestFinish
    \/ Return

ForestSpec == ForestInit /\ [][ForestNext]_vars

(* ------------------------------ claims -------------------------------- *)

ForecastOps ==
    {"forecast_arima", "forecast_prophet", "forecast_random_forest", "ensemble_forecast"}

AnyOps == ForecastOps \cup {"_fallback_forecast"}

\* a call has handed a value, or an exception, to its caller
Returned == result # NoResult

EndsWith(str, suffix) ==
    /\ Len(str) >= Len(suffix)
    /\ SubSeq(str, Len(str) - Len(suffix) + 1, Len(str)) = suffix

Days(df) == {df[i].payment_date : i \in 1..Len(df)}

\* a step inside the model raised, for the library outcomes env
ArimaFails(env) == adfuller_raises(cumulative_of(daily_cashflow)) \/ env.raises
ProphetFails(env) == prophet_fit_raises(daily_cashflow) \/ env.raises
RfFails(env) == env.raises

\* C1: a forecast call on a built forecaster returns a result and never
\* raises; when a step inside a model fails, the value returned in the
\* model's place (to the caller, or to the ensemble) is the Fallback
\* Forecaster's result.
C1_NeverRaises ==
    (op.name \in ForecastOps /\ Returned) =>
        /\ ~raised(result)
        /\ (op.name = "forecast_arima" /\ ArimaFails(op.env)) =>
              result = fallback_forecast(daily_cashflow, op.days_ahead, "ARIMA")
        /\ (op.name = "forecast_prophet" /\ ProphetFails(op.env)) =>
              result = fallback_forecast(daily_cashflow, op.days_ahead, "Prophet")
        /\ (op.name = "forecast_random_forest" /\ RfFails(op.env)) =>
              result = fallback_forecast(daily_cashflow, op.days_ahead, "RandomForest")
        /\ op.name = "ensemble_forecast" =>
              /\ result.model_type = "Ensemble"
              /\ ArimaFails(op.env.arima) =>
                    result.individual_models.arima
                        = fallback_forecast(daily_cashflow, op.days_ahead, "ARIMA")
              /\ ProphetFails(op.env.prophet) =>
                    result.individual_models.prophet
                        = fallback_forecast(daily_cashflow, op.days_ahead, "Prophet")
              /\ RfFails(op.env.random_forest) =>
                    result.individual_models.random_forest
                        = fallback_forecast(daily_cashflow, op.days_ahead, "RandomForest")

\* a library call of forecast_prophet raised on a series Prophet can fit, and
\* the caller received the fallback's result
C1_Witness ==
    /\ op.name = "forecast_prophet"
    /\ op.env.raises
    /\ ~prophet_fit_raises(daily_cashflow)
    /\ result.model_type = "Prophet_Fallback"

\* C2: every result returned for horizon N has forecast, future_dates,
\* lower and upper all of length N.
C2_LengthsEqualHorizon ==
    (op.name \in AnyOps /\ Returned /\ ~raised(result)) =>
        /\ Len(result.forecast) = op.days_ahead
        /\ Len(result.future_dates) = op.days_ahead
        /\ Len(result.confidence_interval.lower) = op.days_ahead
        /\ Len(result.confidence_interval.upper) = op.days_ahead

\* C3: in every result the band contains the point forecast at every index,
\* negative point forecasts included.
C3_BandContainsForecast ==
    (op.name \in AnyOps /\ Returned /\ ~raised(result)) =>
        \A i \in 1..Len(result.forecast) :
            /\ result.confidence_interval.lower[i] <= result.forecast[i]
            /\ result.forecast[i] <= result.confidence_interval.upper[i]

\* C4: on a forecaster built from a single transaction, a forecast call does
\* not raise and returns trend "stable" with each of the N forecast values
\* equal to the last cumulative value.
C4_SingleTransactionUltimate ==
    (built = "built" /\ Len(cashflow_df) = 1 /\ op.name \in ForecastOps /\ Returned) =>
        /\ ~raised(result)
        /\ result.trend = "stable"
        /\ Len(result.forecast) = op.days_ahead
        /\ \A i \in 1..op.days_ahead :
              result.forecast[i]
                  = result.den * daily_cashflow[Len(daily_cashflow)].cumulative

\* the model_type tag of r, returned in place of a model that fails exactly
\* when `fails`, is the fallback's; an untagged model_type comes from the
\* model's own return
TagTellsFallback(r, model_type, fails, own) ==
    /\ fails => EndsWith(r.model_type, "_Fallback")
    /\ r.path \in {"linear", "ultimate"} => EndsWith(r.model_type, "_Fallback")
    /\ r.model_type = model_type => (~fails /\ r.path = "own" /\ r = own)

\* C5: a result the Fallback Forecaster substituted carries a model_type that
\* ends with "_Fallback"; a result whose model_type is exactly ARIMA,
\* Prophet, RandomForest or Ensemble is the return of that model's own path.
C5_FallbackTag ==
    (op.name \in AnyOps /\ Returned /\ ~raised(result)) =>
        LET n == op.days_ahead
            arima(env) == IF ArimaFails(env) THEN NoResult
                          ELSE arima_result(daily_cashflow, n, env)
            prophet(env) == IF ProphetFails(env) THEN NoResult
                            ELSE prophet_result(daily_cashflow, n, env)
            rf(env) == IF RfFails(env) \/ Len(aligned_target(cashflow_df, daily_cashflow)) < MinRows
                       THEN NoResult
                       ELSE random_forest_result(cashflow_df, daily_cashflow, n, env)
        IN  /\ op.name = "_fallback_forecast" => EndsWith(result.model_type, "_Fallback")
            /\ result.model_type \in ModelTypes => op.name \in ForecastOps
            /\ op.name = "forecast_arima" =>
                  /\ TagTellsFallback(result, "ARIMA", ArimaFails(op.env), arima(op.env))
                  /\ result.model_type \in ModelTypes => result.model_type = "ARIMA"
            /\ op.name = "forecast_prophet" =>
                  /\ TagTellsFallback(result, "Prophet", ProphetFails(op.env), prophet(op.env))
                  /\ result.model_type \in ModelTypes => result.model_type = "Prophet"
            /\ op.name = "forecast_random_forest" =>
                  /\ TagTellsFallback(result, "RandomForest", RfFails(op.env), rf(op.env))
                  /\ result.model_type \in ModelTypes => result.model_type = "RandomForest"
            /\ op.name = "ensemble_forecast" =>
                  /\ result.model_type \in ModelTypes => result.model_type = "Ensemble"
                  /\ result.model_type = "Ensemble" =>
                        /\ result.path = "own"
                        /\ TagTellsFallback(result.individual_models.arima, "ARIMA",
                                            ArimaFails(op.env.arima), arima(op.env.arima))
                        /\ TagTellsFallback(result.individual_models.prophet, "Prophet",
                                            ProphetFails(op.env.prophet),
                                            prophet(op.env.prophet))
                        /\ TagTellsFallback(result.individual_models.random_forest,
                                            "RandomForest",
                                            RfFails(op.env.random_forest),
                                            rf(op.env.random_forest))

\* an ensemble blended from a fallback substitute for ARIMA and Prophet's own
\* result
C5_Witness ==
    /\ op.name = "ensemble_forecast"
    /\ result.model_type = "Ensemble"
    /\ result.individual_models.arima.model_type = "ARIMA_Fallback"
    /\ result.individual_models.prophet.model_type = "Prophet"

\* the Fallback Forecaster was invoked in the call that returned
FallbackInvoked ==
    \/ op.name = "_fallback_forecast"
    \/ op.name = "forecast_arima" /\ ArimaFails(op.env)
    \/ op.name = "forecast_prophet" /\ ProphetFails(op.env)
    \/ /\ op.name = "forecast_random_forest"
       /\ (RfFails(op.env) \/ Len(aligned_target(cashflow_df, daily_cashflow)) < MinRows)

\* C6: an invocation of the Fallback Forecaster ends with a result: the
\* linear tier's when the linear fit succeeds, the ultimate tier's only when
\* the linear fit has failed, and the ultimate tier does not fail.
C6_FallbackTerminates ==
    (Returned /\ FallbackInvoked) =>
        /\ ~raised(result)
        /\ result.path \in {"linear", "ultimate"}
        /\ ~polyfit_raises(cumulative_of(daily_cashflow)) =>
              /\ result.path = "linear"
              /\ result.trend \in {"increasing", "decreasing"}
        /\ result.path = "ultimate" =>
              /\ polyfit_raises(cumulative_of(daily_cashflow))
              /\ result.model_type = "Ultimate_Fallback"

\* the ultimate tier was entered and returned
C6_Witness ==
    /\ op.name = "_fallback_forecast"
    /\ polyfit_raises(cumulative_of(daily_cashflow))
    /\ result.path = "ultimate"

\* C7: for a transaction table with at least 2 distinct days, in any order,
\* the daily series has one entry per calendar day from the earliest to the
\* latest date: (max - min) + 1 entries, consecutive dates one day apart.
C7_ContiguousDays ==
    (built = "built" /\ Cardinality(Days(input_df)) >= 2) =>
        /\ Len(daily_cashflow) = SetMax(Days(input_df)) - SetMin(Days(input_df)) + 1
        /\ daily_cashflow[1].payment_date = SetMin(Days(input_df))
        /\ \A i \in 1..(Len(daily_cashflow) - 1) :
              daily_cashflow[i + 1].payment_date = daily_cashflow[i].payment_date + 1

\* a table given latest date first, with an empty day between its two dates
C7_Witness ==
    /\ built = "built"
    /\ Len(input_df) = 2
    /\ input_df[1].payment_date = input_df[2].payment_date + 2
    /\ Len(daily_cashflow) = 3

\* C8: the cumulative column is the running sum of the daily amounts.
C8_CumulativeIsRunningSum ==
    built = "built" =>
        /\ daily_cashflow[1].cumulative = daily_cashflow[1].daily_amount
        /\ \A i \in 2..Len(daily_cashflow) :
              daily_cashflow[i].cumulative
                  = daily_cashflow[i - 1].cumulative + daily_cashflow[i].daily_amount
        /\ daily_cashflow[Len(daily_cashflow)].cumulative
              = SumSeq(Column(daily_cashflow, "daily_amount"))

\* a series of several days whose first two daily amounts are not zero
C8_Witness ==
    /\ built = "built"
    /\ Len(daily_cashflow) >= 2
    /\ daily_cashflow[1].daily_amount # 0
    /\ daily_cashflow[2].daily_amount # 0

\* the amount of a transaction as the ledger means it: an outflow, flagged
\* by its direction or given as a negative amount, counts negatively
SignedAmount(t) ==
    IF t.direction = "OUT" /\ t.amount_sgd > 0 THEN -t.amount_sgd ELSE t.amount_sgd

\* C9: each day's daily net amount is the sum of the signed amounts of that
\* day's transactions, and 0 on a day without transactions.
C9_DailyNetIsSignedSum ==
    built = "built" =>
        \A i \in 1..Len(daily_cashflow) :
            LET rows == RowsOn(input_df, daily_cashflow[i].payment_date)
            IN  daily_cashflow[i].daily_amount
                    = SumSeq([k \in 1..Len(rows) |-> SignedAmount(rows[k])])

\* C10: a history of fewer than 2 distinct days makes the builder signal
\* "insufficient data", not build a series and not fail with another error.
C10_InsufficientDataSignalled ==
    (built # "new" /\ Cardinality(Days(input_df)) < 2) =>
        /\ built = "raised"
        /\ init_error = "InsufficientData"

\* the absolute value
Abs(n) == IF n < 0 THEN -n ELSE n

\* the fraction num / den (den > 0) in lowest terms
Rat(num, den) ==
    LET g == Gcd(Abs(num), den)
    IN  [num |-> num \div g, den |-> den \div g]

RatAdd(x, y) ==
    LET l == Lcm(x.den, y.den)
    IN  Rat(x.num * (l \div x.den) + y.num * (l \div y.den), l)

\* x * tenths / 10
RatTenths(x, tenths) == Rat(x.num * tenths, x.den * 10)

\* 0.4 * x + 0.4 * y + 0.2 * z
Blend442(x, y, z) ==
    RatAdd(RatAdd(RatTenths(x, 4), RatTenths(y, 4)), RatTenths(z, 2))

EnsembleReturned == op.name = "ensemble_forecast" /\ result.model_type = "Ensemble"

\* C11: every ensemble result carries the weights arima 0.4, prophet 0.4 and
\* random_forest 0.2 (in tenths: 4, 4, 2), which sum to 1.0, and the weights
\* are keyed by the same model names as individual_models.
C11_ModelWeights ==
    EnsembleReturned =>
        /\ result.model_weights = [arima |-> 4, prophet |-> 4, random_forest |-> 2]
        /\ result.model_weights.arima + result.model_weights.prophet
              + result.model_weights.random_forest = 10
        /\ DOMAIN result.model_weights = DOMAIN result.individual_models
        /\ DOMAIN result.individual_models = {"arima", "prophet", "random_forest"}

\* an ensemble result whose three models are one model output and two
\* fallback substitutes
C11_Witness ==
    /\ EnsembleReturned
    /\ result.individual_models.arima.model_type = "ARIMA"
    /\ result.individual_models.prophet.model_type = "Prophet_Fallback"
    /\ result.individual_models.random_forest.model_type = "RandomForest_Fallback"

\* the three individual sequences sel picks, blended value by value
BlendOf(m, sel(_), i) ==
    Blend442(Rat(sel(m.arima)[i], m.arima.den),
             Rat(sel(m.prophet)[i], m.prophet.den),
             Rat(sel(m.random_forest)[i], m.random_forest.den))

\* C12: in an ensemble result, forecast[i], lower[i] and upper[i] are each
\* 0.4 * ARIMA + 0.4 * Prophet + 0.2 * RandomForest of the corresponding
\* values of the three results in individual_models.
C12_BlendIsWeightedSum ==
    EnsembleReturned =>
        LET m == result.individual_models
            fc(x) == x.forecast
            lo(x) == x.confidence_interval.lower
            up(x) == x.confidence_interval.upper
        IN  /\ Len(result.forecast) = Len(m.arima.forecast)
            /\ Len(result.confidence_interval.lower) = Len(m.arima.forecast)
            /\ Len(result.confidence_interval.upper) = Len(m.arima.forecast)
            /\ \A i \in 1..Len(result.forecast) :
                  /\ Rat(result.forecast[i], result.den) = BlendOf(m, fc, i)
                  /\ Rat(result.confidence_interval.lower[i], result.den)
                        = BlendOf(m, lo, i)
                  /\ Rat(result.confidence_interval.upper[i], result.den)
                        = BlendOf(m, up, i)

\* an ensemble result whose three models forecast three different values
\* for the first day
C12_Witness ==
    /\ EnsembleReturned
    /\ LET m == result.individual_models
           a == Rat(m.arima.forecast[1], m.arima.den)
           p == Rat(m.prophet.forecast[1], m.prophet.den)
           r == Rat(m.random_forest.forecast[1], m.random_forest.den)
       IN  a # p /\ p # r /\ a # r

\* an ensemble result as ensemble_forecast returns it
IsEnsembleResult(r) ==
    /\ r.model_type = "Ensemble"
    /\ "individual_models" \in DOMAIN r
    /\ "model_weights" \in DOMAIN r

\* C13: the horizon-based selection sends N <= 30 days to the ARIMA model,
\* 31..90 days to the Prophet model and more than 90 days to the ensemble;
\* a request for 365 days is served by the ensemble.
C13_HorizonRouting ==
    /\ (op.name = "forecast_cashflow" /\ Returned) =>
          /\ op.days_ahead <= 30 =>
                /\ op.called = "forecast_arima"
                /\ result.metrics.model_type
                      \in {"ARIMA", "ARIMA_Fallback", "Ultimate_Fallback"}
          /\ (31 <= op.days_ahead /\ op.days_ahead <= 90) =>
                /\ op.called = "forecast_prophet"
                /\ result.metrics.model_type
                      \in {"Prophet", "Prophet_Fallback", "Ultimate_Fallback"}
          /\ op.days_ahead > 90 =>
                /\ op.called = "ensemble_forecast"
                /\ result.metrics.model_type = "Ensemble"
    /\ (op.name = "generate_charts_for_recommendations" /\ Returned
            /\ op.days_ahead = 365) =>
          /\ "ensemble" \in DOMAIN result.advanced_forecasting
          /\ IsEnsembleResult(result.advanced_forecasting.ensemble)

\* C19: the scenario tag of a request does not influence forecasting: the
\* same request under any other tag returns the same forecasts, intervals,
\* metrics and trends, and the tag shows only in the request's parameters.
C19_ScenarioOnlyInMetadata ==
    (op.name = "generate_charts_for_recommendations" /\ Returned) =>
        /\ result.forecasting_params.scenario = op.scenario
        /\ \A other \in Scenarios :
              LET twin == generate_charts_for_recommendations(
                              input_df, op.time_range, other, op.env)
              IN  /\ twin.advanced_forecasting = result.advanced_forecasting
                  /\ twin.charts = result.charts
                  /\ twin.insights = result.insights
                  /\ twin = [result EXCEPT !.forecasting_params.scenario = other]

\* a request of a year under a tag other than the default, answered with
\* forecasts
C19_Witness ==
    /\ op.name = "generate_charts_for_recommendations"
    /\ Returned
    /\ op.scenario = "pessimistic"
    /\ op.time_range = "1y"
    /\ "ensemble" \in DOMAIN result.advanced_forecasting
    /\ Len(result.advanced_forecasting.ensemble.forecast) = 365

\* the rows forecast_random_forest has left to train on
AlignedRows == Len(aligned_target(cashflow_df, daily_cashflow))

\* what a training that was run would hand back
TrainedEnvs(days_ahead) ==
    {[raises |-> FALSE, predictions |-> [i \in 1..days_ahead |-> v], metrics |-> m] :
        v \in {0, 100}, m \in LibMetrics}

\* C14 as stated: with fewer than 10 rows forecast_random_forest returns the
\* fallback's result, tagged 'RandomForest_Fallback', without training; with
\* 10 or more rows it trains.
C14_FewRowsTaggedRandomForestFallback ==
    (op.name = "forecast_random_forest" /\ Returned) =>
        /\ AlignedRows < 10 =>
              /\ result = fallback_forecast(daily_cashflow, op.days_ahead, "RandomForest")
              /\ result.model_type = "RandomForest_Fallback"
        /\ (AlignedRows >= 10 /\ ~op.env.raises) =>
              result.model_type = "RandomForest"

\* C14: with fewer than 10 rows forecast_random_forest returns the fallback's
\* result (tagged 'RandomForest_Fallback', or 'Ultimate_Fallback' for a
\* series of one day) whatever a training would have produced; with 10 or
\* more rows it trains and returns the trained model's predictions.
C14_FewRowsFallBack ==
    (op.name = "forecast_random_forest" /\ Returned) =>
        /\ AlignedRows < 10 =>
              /\ result = fallback_forecast(daily_cashflow, op.days_ahead, "RandomForest")
              /\ result.model_type = IF Len(daily_cashflow) = 1
                                     THEN "Ultimate_Fallback"
                                     ELSE "RandomForest_Fallback"
              /\ \A e \in TrainedEnvs(op.days_ahead) :
                    forecast_random_forest(cashflow_df, daily_cashflow,
                                           op.days_ahead, e) = result
        /\ (AlignedRows >= 10 /\ ~op.env.raises) =>
              /\ result.model_type = "RandomForest"
              /\ result.forecast
                    = [i \in 1..op.days_ahead |-> 10 * op.env.predictions[i]]
              /\ result.den = 10

\* a forecaster one row short of the minimum answers with the linear fallback
C14_Witness ==
    /\ op.name = "forecast_random_forest"
    /\ Returned
    /\ AlignedRows = 9
    /\ result.model_type = "RandomForest_Fallback"

\* dates is the days_ahead days that follow the daily series
FollowsSeries(dates, days_ahead) ==
    /\ Len(dates) = days_ahead
    /\ days_ahead >= 1 =>
          dates[1] = daily_cashflow[Len(daily_cashflow)].payment_date + 1
    /\ \A i \in 2..Len(dates) : dates[i] = dates[i - 1] + 1

\* C15: in every result for horizon N, future_dates are the N days that
\* follow the daily series, the first one the day after its last date and
\* each next one a day later; so for each model, both fallback tiers and the
\* ensemble with its individual models.
C15_FutureDatesFollowSeries ==
    (op.name \in AnyOps /\ Returned) =>
        /\ FollowsSeries(result.future_dates, op.days_ahead)
        /\ op.name = "ensemble_forecast" =>
              \A m \in DOMAIN result.individual_models :
                  FollowsSeries(result.individual_models[m].future_dates,
                                op.days_ahead)

\* the result r with every forecast value, bound and error moved
Shifted(r) ==
    [r EXCEPT !.forecast = [i \in 1..Len(r.forecast) |-> r.forecast[i] + r.den],
              !.confidence_interval =
                  [lower |-> [i \in 1..Len(r.forecast) |->
                                 r.confidence_interval.lower[i] + r.den],
                   upper |-> [i \in 1..Len(r.forecast) |->
                                 r.confidence_interval.upper[i] + r.den]],
              !.metrics = [r.metrics EXCEPT !.mae = r.metrics.mae + 3]]

\* C16: in an ensemble forecast a model short of its minimum of data (the
\* random forest with fewer than 10 rows) is skipped: the blended forecast,
\* the bounds and the aggregate metric are what they would be had that model
\* put out anything else.
C16_ShortModelSkipped ==
    (EnsembleReturned /\ AlignedRows < 10) =>
        LET m == result.individual_models
            other == ensemble_result(daily_cashflow, m.arima, m.prophet,
                                     Shifted(m.random_forest))
        IN  /\ other.forecast = result.forecast
            /\ other.confidence_interval = result.confidence_interval
            /\ other.metrics.ensemble_mae = result.metrics.ensemble_mae

\* the value a call op returns on a forecaster built from the table df
ResultOf(o, df) ==
    LET daily == prepare_daily_data(df)
    IN  CASE o.name = "forecast_arima" -> forecast_arima(daily, o.days_ahead, o.env)
          [] o.name = "forecast_prophet" -> forecast_prophet(daily, o.days_ahead, o.env)
          [] o.name = "forecast_random_forest" ->
                forecast_random_forest(df, daily, o.days_ahead, o.env)
          [] o.name = "ensemble_forecast" ->
                ensemble_forecast(df, daily, o.days_ahead, o.env.arima,
                                  o.env.prophet, o.env.random_forest)
          [] o.name = "_fallback_forecast" ->
                fallback_forecast(daily, o.days_ahead, o.env.model_type)

\* C18: forecast calls are stateless. No step changes the caller's table;
\* once the forecaster is built, no call in any order changes its copy of
\* the table or its daily series; and what a call returns is what the same
\* call returns on a forecaster freshly built from the caller's table,
\* whichever calls came before.
C18_ForecastCallsStateless ==
    [][/\ input_df' = input_df
       /\ built = "built" =>
             /\ built' = "built"
             /\ cashflow_df' = cashflow_df
             /\ daily_cashflow' = daily_cashflow
             /\ cashflow_df = input_df
             /\ daily_cashflow = prepare_daily_data(input_df)
       /\ (built = "built" /\ result' # NoResult) =>
             /\ op'.name \in AnyOps
             /\ result' = ResultOf(op', input_df)]_vars

\* a built forecaster after a call has returned, as it was built
C18_Witness ==
    /\ built = "built"
    /\ op = NoOp
    /\ result = NoResult
    /\ Len(input_df) >= 2
    /\ cashflow_df = input_df
    /\ daily_cashflow = prepare_daily_data(input_df)

\* C20: the linear fallback fits the least-squares line to the cumulative
\* series against the day index (the line whose residuals sum to zero and
\* are orthogonal to the index), labels the trend "increasing" exactly when
\* its slope is positive, and forecasts the line's values at the indices
\* len(series) .. len(series) + N - 1; for 60 days of alternating +1000 and
\* -800 the fallback is the linear one, the slope is positive and the label
\* is "increasing".
C20_LinearFallbackTrend ==
    (op.name = "_fallback_forecast" /\ Returned) =>
        /\ input_df = Sawtooth(60) =>
              /\ result.path = "linear"
              /\ result.trend = "increasing"
              /\ daily_cashflow[60].cumulative > daily_cashflow[1].cumulative
        /\ result.path = "linear" =>
              LET series == cumulative_of(daily_cashflow)
                  n == Len(series)
                  c == polyfit(series)
                  residual == [i \in 1..n |->
                                  c.den * series[i] - c.slope * (i - 1) - c.intercept]
              IN  /\ c.den > 0
                  /\ SumSeq(residual) = 0
                  /\ SumSeq([i \in 1..n |-> (i - 1) * residual[i]]) = 0
                  /\ result.trend = "increasing" <=> c.slope > 0
                  /\ result.trend \in {"increasing", "decreasing"}
                  /\ Len(result.forecast) = op.days_ahead
                  /\ \A j \in 1..op.days_ahead :
                        Rat(result.forecast[j], result.den)
                            = Rat(c.slope * (n + j - 1) + c.intercept, c.den)

\* the linear fallback over the 60 days of the sawtooth
C20_Witness ==
    /\ op.name = "_fallback_forecast"
    /\ Returned
    /\ input_df = Sawtooth(60)
    /\ Len(daily_cashflow) = 60
    /\ result.path = "linear"
    /\ result.trend = "increasing"

\* the 18 orders of the grid, and their order of iteration
AllOrders == {<<p, d, q>> : p \in 0..2, d \in 0..1, q \in 0..2}

NotAfter(o1, o2) ==
    \/ o1[1] < o2[1]
    \/ o1[1] = o2[1] /\ o1[2] < o2[2]
    \/ o1[1] = o2[1] /\ o1[2] = o2[2] /\ o1[3] <= o2[3]

\* the calls of the log that are fits of the grid
FitCalls(calls) == SelectSeq(calls, LAMBDA c : c.call = "fit")

\* the log tells of each fit what the library did
LogAgrees(calls, env) ==
    \A i \in 1..Len(calls) :
        /\ calls[i].call = "fit" => calls[i].raised = env.fits[calls[i].order].raises
        /\ calls[i].call = "fit_fixed" =>
              (calls[i].raised = env.fixed.raises /\ calls[i].order = <<1, 1, 1>>)
        /\ calls[i].call = "forecast" => calls[i].raised = env.post_raises

\* the orders whose fit succeeded
Successful(fits) == {o \in AllOrders : ~fits[o].raises}

\* a forecast_arima whose stationarity transformer returned has come back
SearchReturned ==
    /\ op.name = "forecast_arima"
    /\ Returned
    /\ op.calls[1] = Call("_make_stationary", <<>>, FALSE)

\* C21: the grid search fits all 18 orders, each once, p outermost and q
\* innermost; a fit that raises neither ends the search nor loses the best
\* fit so far; the model that goes on to forecast is the successful fit of
\* least AIC, the first in iteration order among equals, and model_order and
\* aic of the returned result are its order and its AIC.
C21_GridSearchKeepsLeastAIC ==
    SearchReturned =>
        LET tried == FitCalls(op.calls)
            won == Successful(op.env.fits)
        IN  /\ LogAgrees(op.calls, op.env)
            /\ Len(tried) = 18
            /\ {tried[i].order : i \in 1..Len(tried)} = AllOrders
            /\ \A i \in 1..(Len(tried) - 1) :
                  /\ tried[i].order # tried[i + 1].order
                  /\ NotAfter(tried[i].order, tried[i + 1].order)
            /\ \A i \in 1..Len(tried) : op.calls[i + 1] = tried[i]
            /\ won # {} =>
                  \E o \in won :
                     /\ \A o2 \in won :
                           /\ op.env.fits[o].aic <= op.env.fits[o2].aic
                           /\ op.env.fits[o].aic = op.env.fits[o2].aic => NotAfter(o, o2)
                     /\ op.calls[Len(tried) + 2].call = "forecast"
                     /\ op.calls[Len(tried) + 2].order = o
                     /\ result.model_type = "ARIMA" =>
                           /\ result.model_order = o
                           /\ result.metrics.aic = Finite(op.env.fits[o].aic)

\* the first order fitted with AIC 7, the next raised, and the last order of
\* the grid, fitted with AIC 5, is the one reported
C21_Witness ==
    /\ SearchReturned
    /\ ~op.env.fits[<<0, 0, 0>>].raises
    /\ op.env.fits[<<0, 0, 0>>].aic = 7
    /\ op.env.fits[<<0, 0, 1>>].raises
    /\ result.model_type = "ARIMA"
    /\ result.model_order = <<2, 1, 2>>
    /\ result.metrics.aic = Finite(5)

\* the fallback was invoked in the forecast_arima that returned
SearchFellBack ==
    \E i \in 1..Len(op.calls) : op.calls[i].call = "_fallback_forecast"

\* the steps of the escalation that precede the fallback: a fit of the grid
\* that raises is followed by the fit of the next order, and the fixed order
\* is fitted, once, after the 18 fits of the grid and exactly when none of
\* them succeeded
SkipThenFixedOrder ==
    LET tried == FitCalls(op.calls)
        fixed == SelectSeq(op.calls, LAMBDA c : c.call = "fit_fixed")
    IN  /\ LogAgrees(op.calls, op.env)
        /\ Len(tried) = 18
        /\ \A i \in 1..Len(tried) : op.calls[i + 1] = tried[i]
        /\ Len(fixed) = (IF Successful(op.env.fits) = {} THEN 1 ELSE 0)
        /\ Len(fixed) = 1 => op.calls[Len(tried) + 2] = fixed[1]

RECURSIVE DiffTimes(_, _)
DiffTimes(s, d) ==
    IF d = 0 THEN s
    ELSE LET once == DiffTimes(s, d - 1)
         IN  [i \in 1..(Len(once) - 1) |-> once[i + 1] - once[i]]

\* C23: the Stationarity Transformer always returns (series', d) with
\* 0 <= d <= 3, series' the input differenced d times; on return series'
\* tests stationary or d = 3; an input that tests stationary is returned
\* with d = 0 as it is; the input series is not modified.
C23_TransformerReturns ==
    (op.name = "_make_stationary" /\ Returned) =>
        /\ ~raised(result)
        /\ result.diff_order \in 0..3
        /\ result.series = DiffTimes(op.series, result.diff_order)
        /\ op.env.verdicts[result.diff_order] \/ result.diff_order = 3
        /\ op.env.verdicts[0] => (result.diff_order = 0 /\ result.series = op.series)
        /\ cumulative_of(daily_cashflow) = op.series

\* the label that classifies a final forecast value final / den against the
\* last observed value
UpDownFlat(final, den, last) ==
    IF final > last * den THEN "increasing"
    ELSE IF final < last * den THEN "decreasing"
    ELSE "stable"

\* the trend label of a model's own result r classifies its final forecast
\* against the last observed cumulative value
LabelClassifies(r) ==
    /\ r.trend \in {"increasing", "decreasing", "stable"}
    /\ r.model_type \in ModelTypes =>
          r.trend = UpDownFlat(r.forecast[Len(r.forecast)], r.den,
                               daily_cashflow[Len(daily_cashflow)].cumulative)

\* C24: every result's trend label is one of "increasing", "decreasing" and
\* "stable"; for ARIMA, Prophet, RandomForest and the Ensemble it is
\* "increasing" when the final forecast is greater than the last observed
\* cumulative value, "decreasing" when it is smaller and "stable" when the
\* two are equal.
C24_TrendLabelUpDownFlat ==
    (op.name \in ForecastOps /\ Returned /\ ~raised(result)) =>
        /\ LabelClassifies(result)
        /\ result.model_type = "Ensemble" =>
              \A m \in DOMAIN result.individual_models :
                  LabelClassifies(result.individual_models[m])

\* s is the beginning of t
IsPrefix(s, t) == Len(s) <= Len(t) /\ s = SubSeq(t, 1, Len(s))

ThreeCalls == <<"forecast_arima", "forecast_prophet", "forecast_random_forest">>

\* C25: ensemble_forecast calls forecast_arima, forecast_prophet and
\* forecast_random_forest, each once and in this order, before it blends; a
\* failure inside a model is answered by that model's own fallback, the other
\* two models still run and the blend is produced; 'Ensemble_Fallback' is
\* returned only when the combining step itself throws, which calls that
\* return three sequences of the requested length never cause.
C25_ThreeCallsThenBlend ==
    op.name = "ensemble_forecast" =>
        /\ IsPrefix(op.calls, ThreeCalls)
        /\ Len(op.calls) < 3 => result = NoResult
        /\ \A m \in {"arima", "prophet", "random_forest"} :
              op.results[m] # NoResult =>
                  /\ ~raised(op.results[m])
                  /\ Len(op.results[m].forecast) = op.days_ahead
        /\ (Len(op.calls) >= 1 /\ ArimaFails(op.env.arima)) =>
              op.results.arima
                  = fallback_forecast(daily_cashflow, op.days_ahead, "ARIMA")
        /\ (Len(op.calls) >= 2 /\ ProphetFails(op.env.prophet)) =>
              op.results.prophet
                  = fallback_forecast(daily_cashflow, op.days_ahead, "Prophet")
        /\ (Len(op.calls) >= 3 /\ RfFails(op.env.random_forest)) =>
              op.results.random_forest
                  = fallback_forecast(daily_cashflow, op.days_ahead, "RandomForest")
        /\ Returned =>
              /\ op.calls = ThreeCalls
              /\ result.model_type = "Ensemble"
              /\ result.individual_models = op.results
              /\ result = ensemble_forecast(cashflow_df, daily_cashflow, op.days_ahead,
                                            op.env.arima, op.env.prophet,
                                            op.env.random_forest)

\* the library calls of forecast_arima and of forecast_random_forest raised,
\* forecast_prophet ran between them, and the blend was returned
C25_Witness ==
    /\ op.name = "ensemble_forecast"
    /\ Returned
    /\ op.calls = ThreeCalls
    /\ op.env.arima.raises
    /\ ~op.env.prophet.raises
    /\ op.env.random_forest.raises
    /\ op.results.prophet.model_type = "Prophet"
    /\ result.model_type = "Ensemble"

\* the features the rollforward may change
CalendarDerived == {"day_of_week", "day_of_month", "month"}

\* the calendar features of `next` are those of the day after `row`
OneDayLater(row, next) ==
    /\ next.payment_date = row.payment_date + 1
    /\ next.day_of_week = (row.day_of_week + 1) % 7
    /\ IF row.day_of_month < DaysInMonth(row.month)
       THEN next.day_of_month = row.day_of_month + 1 /\ next.month = row.month
       ELSE next.day_of_month = 1 /\ next.month = (row.month % 12) + 1

OneDate(row) ==
    /\ row.quarter = (row.month - 1) \div 3 + 1
    /\ row.is_weekend = 1 <=> row.day_of_week >= 5
    /\ row.is_month_end = 1 <=> row.day_of_month >= 28

\* C27: in every feature vector used for a prediction of the recursive
\* forecast, as in the engineered rows, quarter corresponds to month,
\* is_weekend is 1 exactly when day_of_week >= 5 and is_month_end is 1
\* exactly when day_of_month >= 28.
C27_CalendarFeaturesConsistent ==
    op.name = "forecast_random_forest" =>
        /\ \A k \in 1..Len(op.features_df) : OneDate(op.features_df[k])
        /\ \A k \in 1..Len(op.inputs) : OneDate(op.inputs[k])

\* C28: the split is chronological and unshuffled: of the n date-ordered
\* aligned rows the last ceil(0.2 n) are the test rows and the rows before
\* them the training rows (8 and 2 of 10), so every training date precedes
\* every test date, and the two parts are disjoint and cover all rows.
C28_ChronologicalSplit ==
    (op.name = "forecast_random_forest" /\ op.pc \in {"predict", "return"}
        /\ Len(aligned_target(cashflow_df, daily_cashflow)) >= 10) =>
        LET train == {op.X_train[k] : k \in 1..Len(op.X_train)}
            test == {op.X_test[k] : k \in 1..Len(op.X_test)}
            n == Cardinality(Days(cashflow_df))
        IN  /\ Cardinality(train) = Len(op.X_train)
            /\ Cardinality(test) = Len(op.X_test)
            /\ 5 * Len(op.X_test) >= n
            /\ 5 * Len(op.X_test) < n + 5
            /\ Len(op.X_train) + Len(op.X_test) = n
            /\ n = 10 => (Len(op.X_train) = 8 /\ Len(op.X_test) = 2)
            /\ train \cap test = {}
            /\ train \cup test = Days(cashflow_df)
            /\ \A a \in train : \A b \in test : a < b
            /\ \A k \in 1..(Len(op.X_train) - 1) : op.X_train[k] < op.X_train[k + 1]
            /\ \A k \in 1..(Len(op.X_test) - 1) : op.X_test[k] < op.X_test[k + 1]

\* eleven aligned rows were split into eight training and three test rows
C28_Witness ==
    /\ op.name = "forecast_random_forest"
    /\ op.pc = "predict"
    /\ Len(op.X_train) = 8
    /\ Len(op.X_test) = 3
    /\ op.X_test[1] = op.X_train[8] + 1

\* C29: ensemble_mae is the arithmetic mean of the three models' MAEs;
\* arima_mae, prophet_mae and rf_mae are the mae of the corresponding entry
\* of individual_models; a constituent that the fallback replaced brings the
\* fallback's mae of 0.0 into that mean.
C29_EnsembleMaeIsMean ==
    EnsembleReturned =>
        LET m == result.individual_models
        IN  /\ result.metrics.arima_mae = m.arima.metrics.mae
            /\ result.metrics.prophet_mae = m.prophet.metrics.mae
            /\ result.metrics.rf_mae = m.random_forest.metrics.mae
            /\ result.metrics.ensemble_mae.den > 0
            /\ 3 * result.metrics.ensemble_mae.num
                  = result.metrics.ensemble_mae.den
                      * (m.arima.metrics.mae + m.prophet.metrics.mae
                            + m.random_forest.metrics.mae)
            /\ ArimaFails(op.env.arima) => result.metrics.arima_mae = 0
            /\ ProphetFails(op.env.prophet) => result.metrics.prophet_mae = 0
            /\ (RfFails(op.env.random_forest) \/ AlignedRows < 10) =>
                  result.metrics.rf_mae = 0
            /\ \A k \in DOMAIN m :
                  EndsWith(m[k].model_type, "_Fallback") => m[k].metrics.mae = 0

\* two fitted models of MAE 6 and a fallback in place of the random forest:
\* the mean is 4
C29_Witness ==
    /\ EnsembleReturned
    /\ result.metrics.arima_mae = 6
    /\ result.metrics.prophet_mae = 6
    /\ result.individual_models.random_forest.model_type = "RandomForest_Fallback"
    /\ result.metrics.rf_mae = 0
    /\ Rat(result.metrics.ensemble_mae.num, result.metrics.ensemble_mae.den)
          = [num |-> 4, den |-> 1]

\* C30: when the fallback took the place of a constituent of an ensemble
\* call, the result is an 'Ensemble' whose entry for that constituent has a
\* model_type ending in "_Fallback"; an ensemble result without such an entry
\* was blended from the three models' own outputs.
C30_DegradedConstituentTagged ==
    (op.name = "ensemble_forecast" /\ Returned) =>
        LET m == result.individual_models
            n == op.days_ahead
            short == Len(aligned_target(cashflow_df, daily_cashflow)) < MinRows
            degraded == [arima |-> ArimaFails(op.env.arima),
                         prophet |-> ProphetFails(op.env.prophet),
                         random_forest |-> RfFails(op.env.random_forest) \/ short]
        IN  /\ result.model_type = "Ensemble"
            /\ DOMAIN m = DOMAIN degraded
            /\ \A k \in DOMAIN m :
                  degraded[k] <=> EndsWith(m[k].model_type, "_Fallback")
            /\ (\A k \in DOMAIN m : ~EndsWith(m[k].model_type, "_Fallback")) =>
                  /\ m.arima.model_type = "ARIMA"
                  /\ m.arima.forecast
                        = lib_forecast(daily_cashflow[Len(daily_cashflow)].cumulative,
                                       n, op.env.arima)
                  /\ m.prophet.model_type = "Prophet"
                  /\ m.prophet.forecast
                        = lib_forecast(daily_cashflow[Len(daily_cashflow)].cumulative,
                                       n, op.env.prophet)
                  /\ m.random_forest.model_type = "RandomForest"
                  /\ m.random_forest.forecast
                        = [i \in 1..n |-> 10 * op.env.random_forest.predictions[i]]
                  /\ \A k \in DOMAIN m : m[k].path = "own"

\* an ensemble of the three models' own outputs, and none of its entries
\* tagged
C30_Witness ==
    /\ op.name = "ensemble_forecast"
    /\ Returned
    /\ result.model_type = "Ensemble"
    /\ \A k \in DOMAIN result.individual_models :
          /\ ~EndsWith(result.individual_models[k].model_type, "_Fallback")
          /\ result.individual_models[k].path = "own"

====
